---- MODULE Spec2Model ----
(***************************************************************************)
(* Model of the retrieval-and-answer pipeline of openregulations.ai:       *)
(*   - the Cloudflare worker (website/worker/index.js): routing, the chat  *)
(*     turn handleChat, the status query handleStatus and the per-IP rate  *)
(*     limiter checkRateLimit / incrementRateLimit / getRemainingRequests  *)
(*     over the RATE_LIMIT_KV counter store;                               *)
(*   - the chat client (components/chat.js, lib/api-client.js): the        *)
(*     streamed attempt with its non-streamed fallback.                    *)
(*                                                                         *)
(* Time is in milliseconds, as Date.now() gives it.  The clock takes its   *)
(* values in a finite sample of instants around the window boundaries.     *)
(* A worker request is a JavaScript async function: one action of the      *)
(* model is the resolution of one await together with the synchronous code *)
(* that follows it up to the next await, which is the granularity at which *)
(* the runtime interleaves requests.                                       *)
(***************************************************************************)
EXTENDS Integers, Sequences, FiniteSets, TLC

(***************************************************************************)
(* Program constants                                                       *)
(***************************************************************************)
\* RATE_LIMIT.MAX_REQUESTS_PER_DAY
MAX_REQUESTS_PER_DAY == 100
\* the window length added to Date.now(): now + 86400000
WINDOW_MS == 86400000
\* the divisor of Math.ceil((data.resetAt - now) / 1000)
MS_PER_SECOND == 1000
\* expirationTtl of the put, in seconds
EXPIRATION_TTL == 86400
\* performSearch: results.slice(0, 20)
MAX_RESULTS == 20
\* searchAcrossDockets: topK = 5
DEFAULT_TOP_K == 5
\* RATE_LIMIT.MAX_REQUESTS_PER_MINUTE: declared, read by no function
MAX_REQUESTS_PER_MINUTE == 10
\* README, Rate Limits: "5 requests per minute burst limit"
BURST_PER_MINUTE == 5
MINUTE_MS == 60000

(***************************************************************************)
(* Bounds of the model                                                     *)
(***************************************************************************)
\* the clock is sampled over the days 0..MaxDay
MaxDay == 1
\* number of requests the worker receives in one behaviour
MaxRequests == 2
\* number of submits the chat client accepts in one behaviour
MaxSubmits == 2
\* largest number of chunks of a streamed body
MaxChunks == 2
\* largest dimension of a vector
MaxDim == 2
\* largest number of comments of an index that is ranked by similarity
MaxIndex == 3
\* largest topK of a similarity search
MaxTopK == 3
\* largest number of docket ids of one search across dockets
MaxDockets == 2
\* number of comments by which an index of the search component exceeds the
\* number of results it shows
MaxExtra == 2

\* instants inside a day at which the clock is sampled (ms after the day starts)
Offsets == {0, 1}

\* numbers of rows the vector store returns to a chat turn (match_count: 5)
ResultSizes == {0, 5}
Times == {d * WINDOW_MS + o : d \in 0..MaxDay, o \in Offsets}

\* request slots; Spec runs one request at a time in slot "r1"
Reqs == {"r1", "r2"}
SeqReqs == {"r1"}

\* values of the CF-Connecting-IP header; NoHeader: the header is absent
NoHeader == "<absent>"
Headers == {NoHeader, "203.0.113.7"}

(***************************************************************************)
(* Helpers                                                                 *)
(***************************************************************************)
\* mutant of CeilDiv: Math.floor in place of Math.ceil
CeilDivFloor(n, d) == n \div d
\* Math.ceil(n / d) for n >= 0, d > 0
CeilDiv(n, d) == (n + d - 1) \div d

Max(a, b) == IF a >= b THEN a ELSE b

\* request.headers.get('CF-Connecting-IP') || 'unknown'
Identity(h) == IF h = NoHeader THEN "unknown" ELSE h

Identities == {Identity(h) : h \in Headers}

\* mutant of Key: one key for every identity
KeyIgnoresIp(ip) == <<"ratelimit", "unknown">>
\* const key = `ratelimit:${ip}`
Key(ip) == <<"ratelimit", ip>>
Keys == {Key(ip) : ip \in Identities}

\* an optional value: <<>> is null / undefined, <<v>> is the value v
Null == <<>>
Some(v) == <<v>>

\* the JSON text of a rate-limit record, as the object it parses to
Record(count, resetAt) == [count |-> count, resetAt |-> resetAt]

(***************************************************************************)
(* State                                                                   *)
(***************************************************************************)
VARIABLES
    clock,      \* Date.now()
    kvBound,    \* whether env.RATE_LIMIT_KV is bound in this deployment
    kv,         \* RATE_LIMIT_KV: key -> Null or Some([value, expiresAt])
    req,        \* per request slot: position and locals of the handler
    received,   \* number of requests received so far
    served,     \* number of chat turns answered with the completion's text
    messages,   \* chat.js: the messages of the conversation
    isLoading,  \* chat.js: a chat turn is in flight
    currentDocketId,    \* chat.js: the docket the chat is scoped to
    nextId,     \* the next identifier generateId() hands out
    hs,         \* per invocation of handleSubmit: position and locals
    submits,    \* number of submits accepted so far
    embeddingsCache,    \* vector-db.js: the embeddings loaded so far, per docket
    lib,        \* the last call of a function of the search library, with its result
    fan         \* the invocation of searchAcrossDockets: position and locals

\* the state of the chat client
client == <<messages, isLoading, currentDocketId, nextId, hs, submits>>
\* the state of the search library
vectordb == <<embeddingsCache, lib, fan>>
\* the state of the worker
worker == <<clock, kvBound, kv, req, received, served>>

vars == <<clock, kvBound, kv, req, received, served,
          messages, isLoading, currentDocketId, nextId, hs, submits,
          embeddingsCache, lib, fan>>

\* the result object of checkRateLimit; retryAfter is absent (-1) when allowed
Allowed == [allowed |-> TRUE, retryAfter |-> -1]
Denied(retryAfter) == [allowed |-> FALSE, retryAfter |-> retryAfter]

\* a response that has not been produced yet
NoResponse == [kind |-> "none", status |-> 0, retryAfter |-> -1, remaining |-> -1]
\* jsonResponse(data, status)
jsonResponse(status, retryAfter, remaining) ==
    [kind |-> "json", status |-> status, retryAfter |-> retryAfter, remaining |-> remaining]
\* the handler's promise rejects: no Response object is produced by the worker code
Rejected == [kind |-> "rejected", status |-> 0, retryAfter |-> -1, remaining |-> -1]

\* the outcome of an awaited env.RATE_LIMIT_KV?.get(key)
GetOk(v) == [ok |-> TRUE, value |-> v]
GetThrew == [ok |-> FALSE, value |-> Null]

IdleReq ==
    [pc |-> "idle", handler |-> "none", header |-> NoHeader, ip |-> "unknown", body |-> "ok",
     docket |-> FALSE,
     now |-> 0, seen |-> GetOk(Null), rl |-> Allowed, comments |-> 0,
     analysis |-> "null", data |-> Record(0, 0), calls |-> <<>>,
     before |-> Null, resp |-> NoResponse]

(***************************************************************************)
(* The counter store (Workers KV)                                          *)
(***************************************************************************)
\* what a successful get(key) returns now: a value whose time-to-live has
\* run out is gone
KvValue(k) ==
    IF kv[k] # Null /\ clock < kv[k][1].expiresAt THEN Some(kv[k][1].value) ELSE Null

\* the possible outcomes of `await env.RATE_LIMIT_KV?.get(key)`: with no
\* binding the optional chain gives undefined; a bound store answers or throws
GetOutcomes(k) ==
    IF kvBound THEN {GetOk(KvValue(k)), GetThrew} ELSE {GetOk(Null)}

\* mutant of KvPut: the store adds one to the count it holds (an increment
\* inside the store) instead of taking the count computed by the caller
KvPutIncrement(k, data) ==
    [kv EXCEPT ![k] =
        Some([value |-> IF KvValue(k) # Null /\ KvValue(k)[1].resetAt = data.resetAt
                        THEN Record(KvValue(k)[1].count + 1, data.resetAt)
                        ELSE data,
              expiresAt |-> clock + EXPIRATION_TTL * MS_PER_SECOND])]
\* mutant of KvPut: the time-to-live is taken in milliseconds, not in seconds
KvPutTtlInMs(k, data) ==
    [kv EXCEPT ![k] = Some([value |-> data, expiresAt |-> clock + EXPIRATION_TTL])]
\* put(key, JSON.stringify(data), {expirationTtl: 86400}) taking effect now
KvPut(k, data) ==
    [kv EXCEPT ![k] =
        Some([value |-> data, expiresAt |-> clock + EXPIRATION_TTL * MS_PER_SECOND])]

(***************************************************************************)
(* Rate limiting: the three functions over the outcome of the get          *)
(***************************************************************************)
\* { count: 0, resetAt: now + 86400000 }
FreshData(now) == Record(0, now + WINDOW_MS)

\* mutant of ParsedData: a failed read counts as a used-up quota (fail closed)
ParsedDataFailClosed(out, now) ==
    IF ~out.ok THEN Record(MAX_REQUESTS_PER_DAY, now + WINDOW_MS)
    ELSE IF out.value # Null THEN out.value[1] ELSE FreshData(now)
\* the try/catch around the get: stored ? JSON.parse(stored) : fresh; catch: fresh
ParsedData(out, now) ==
    IF out.ok /\ out.value # Null THEN out.value[1] ELSE FreshData(now)

\* mutant of checkRateLimit: the limit is compared with > in place of >=
checkRateLimitOffByOne(out, now) ==
    LET data0 == ParsedData(out, now)
        data  == IF now > data0.resetAt THEN FreshData(now) ELSE data0
    IN  IF data.count > MAX_REQUESTS_PER_DAY
        THEN Denied(CeilDiv(data.resetAt - now, MS_PER_SECOND))
        ELSE Allowed
\* checkRateLimit(ip, env), from the outcome of its get
checkRateLimit(out, now) ==
    LET data0 == ParsedData(out, now)
        data  == IF now > data0.resetAt THEN FreshData(now) ELSE data0
    IN  IF data.count >= MAX_REQUESTS_PER_DAY
        THEN Denied(CeilDiv(data.resetAt - now, MS_PER_SECOND))
        ELSE Allowed

\* mutant of incrementData: every record call opens a new window
incrementDataResets(out, now) == Record(1, now + WINDOW_MS)
\* incrementRateLimit(ip, env): the data it goes on to put
incrementData(out, now) ==
    LET data0 == ParsedData(out, now)
    IN  IF now > data0.resetAt
        THEN Record(1, now + WINDOW_MS)
        ELSE Record(data0.count + 1, data0.resetAt)

\* mutant of getRemainingRequests: the window already counts as over at resetAt
getRemainingRequestsEarly(out, now) ==
    IF ~out.ok THEN MAX_REQUESTS_PER_DAY
    ELSE IF out.value = Null THEN MAX_REQUESTS_PER_DAY
    ELSE IF now >= out.value[1].resetAt THEN MAX_REQUESTS_PER_DAY
    ELSE Max(0, MAX_REQUESTS_PER_DAY - out.value[1].count)
\* getRemainingRequests(ip, env); now is read after the get
getRemainingRequests(out, now) ==
    IF ~out.ok THEN MAX_REQUESTS_PER_DAY
    ELSE IF out.value = Null THEN MAX_REQUESTS_PER_DAY
    ELSE IF now > out.value[1].resetAt THEN MAX_REQUESTS_PER_DAY
    ELSE Max(0, MAX_REQUESTS_PER_DAY - out.value[1].count)

(***************************************************************************)
(* Routing: export default { fetch }                                       *)
(***************************************************************************)
Methods == {"GET", "POST", "OPTIONS"}
Paths == {"/status", "/chat", "/chat/stream", "/search", "/dockets", "/docket"}
Bodies == {"ok", "noMessage", "unparsable"}

Route(method, path) ==
    IF method = "OPTIONS" THEN "options"
    ELSE IF path = "/status" THEN "status"
    ELSE IF path = "/chat" /\ method = "POST" THEN "chat"
    ELSE IF path = "/search" /\ method = "POST" THEN "search"
    ELSE IF path = "/dockets" /\ method = "GET" THEN "dockets"
    ELSE IF path = "/docket" /\ method = "GET" THEN "docket"
    ELSE "notFound"

(***************************************************************************)
(* The chat client: its state                                              *)
(***************************************************************************)
\* invocations of handleSubmit that can be running at once
Handlers == {"h1", "h2"}
\* docketId of renderChat: null or a docket
Dockets == {"null", "EPA-HQ-2024-0001"}
\* what the user has typed, trimmed: nothing or a question
Inputs == {"", "question"}

\* texts are sequences of pieces <<what, n>>; += appends
EmptyText == <<>>
\* data.response of a successful /chat call
Answer == <<<<"answer", 0>>>>
\* `Sorry, I encountered an error: ${error.message}. Please try again.`
ErrorText == <<<<"Sorry, I encountered an error", 0>>>>
\* the n-th chunk of a streamed body
Chunk(n) == <<"chunk", n>>

IdleHandler ==
    [pc |-> "idle", message |-> "", context |-> <<>>, docket |-> "null", loadingId |-> 0,
     response |-> EmptyText, sent |-> <<>>, stream |-> "none", send |-> "none",
     chunks |-> 0]

ClientInit ==
    /\ messages = <<>>
    /\ isLoading = FALSE
    /\ currentDocketId = "null"
    /\ nextId = 1
    /\ hs = [h \in Handlers |-> IdleHandler]
    /\ submits = 0

(***************************************************************************)
(* The search library (vector-db.js): its state                            *)
(***************************************************************************)
\* docket ids searchAcrossDockets is called with
DocketIds == {"D1", "D2"}
\* embeddingsCache.has(docketId) is false
NotCached == [cached |-> FALSE]
\* embeddingsCache.set(docketId, data)
Cached(data) == [cached |-> TRUE, data |-> data]
\* no call made yet
NoCall == [op |-> "none", returned |-> FALSE]
\* results[docketId] is not set
Absent == [absent |-> TRUE]
IdleFan ==
    [pc |-> "idle", docketIds |-> <<>>, at |-> <<>>, loaded |-> <<>>,
     results |-> [d \in DocketIds |-> Absent]]

VectorDbInit ==
    /\ embeddingsCache = [d \in DocketIds |-> NotCached]
    /\ lib = NoCall
    /\ fan = IdleFan

(***************************************************************************)
(* Initial state                                                           *)
(***************************************************************************)
\* Stores the worker can be in when a behaviour starts: empty, or one turn
\* below the limit (first put at instant 0, the 99th at instant 1).
InitStores ==
    {Null} \cup
    {Some([value |-> Record(c, WINDOW_MS),
           expiresAt |-> 1 + EXPIRATION_TTL * MS_PER_SECOND]) :
        c \in {MAX_REQUESTS_PER_DAY - 1, MAX_REQUESTS_PER_DAY}}

Init ==
    /\ ClientInit
    /\ VectorDbInit
    /\ clock = 1
    /\ kvBound \in BOOLEAN
    /\ kv \in [Keys -> InitStores]
    /\ (~kvBound => kv = [k \in Keys |-> Null])
    /\ req = [r \in Reqs |-> IdleReq]
    /\ received = 0
    /\ served = 0

(***************************************************************************)
(* Actions                                                                 *)
(***************************************************************************)
\* positions of a handler whose next step does not read the clock or the store:
\* whether time passes before or after such a step makes no difference, and a
\* finished handler hands its response back at once
ClockBlind == {"body", "embed", "search", "analysis", "done"}

\* time passes
Tick ==
    /\ \A r \in Reqs : req[r].pc \notin ClockBlind
    /\ \E t \in Times : t > clock /\ clock' = t
    /\ UNCHANGED <<kvBound, kv, req, received, served, client, vectordb>>

\* a request arrives in a free slot; cap bounds the requests of a behaviour
CanReceive(r, cap) ==
    /\ req[r].pc = "idle"
    /\ received < cap

Update(r, new) == req' = [req EXCEPT ![r] = new]

Finish(r, cur, resp) == Update(r, [cur EXCEPT !.pc = "done", !.resp = resp])

\* fetch: OPTIONS preflight
ReceiveOptions(r, cap) ==
    /\ CanReceive(r, cap)
    /\ \E m \in Methods, p \in Paths :
        /\ Route(m, p) = "options"
        /\ Update(r, [IdleReq EXCEPT !.pc = "done", !.handler = "options",
                        !.resp = [NoResponse EXCEPT !.kind = "cors", !.status = 200]])
    /\ received' = received + 1
    /\ UNCHANGED <<clock, kvBound, kv, served, client, vectordb>>

\* fetch: no route matches
ReceiveNotFound(r, cap) ==
    /\ CanReceive(r, cap)
    /\ \E m \in Methods, p \in Paths :
        /\ Route(m, p) = "notFound"
        /\ Update(r, [IdleReq EXCEPT !.pc = "done", !.handler = "notFound",
                        !.resp = jsonResponse(404, -1, -1)])
    /\ received' = received + 1
    /\ UNCHANGED <<clock, kvBound, kv, served, client, vectordb>>

\* fetch -> handleStatus -> getRemainingRequests up to its get
ReceiveStatus(r, cap) ==
    /\ CanReceive(r, cap)
    /\ \E m \in Methods, p \in Paths, h \in Headers :
        /\ Route(m, p) = "status"
        /\ Update(r, [IdleReq EXCEPT !.pc = "status_get", !.handler = "status",
                        !.header = h, !.ip = Identity(h),
                        !.before = kv[Key(Identity(h))]])
    /\ received' = received + 1
    /\ UNCHANGED <<clock, kvBound, kv, served, client, vectordb>>

\* getRemainingRequests after its get; handleStatus answers
StatusGet(r) ==
    /\ req[r].pc = "status_get"
    /\ \E out \in GetOutcomes(Key(req[r].ip)) :
        Finish(r, [req[r] EXCEPT !.now = clock, !.seen = out,
                                 !.calls = Append(@, "kv.get")],
               jsonResponse(200, -1, getRemainingRequests(out, clock)))
    /\ UNCHANGED <<clock, kvBound, kv, received, served, client, vectordb>>

\* fetch -> handleChat -> checkRateLimit up to its get
ReceiveChat(r, cap) ==
    /\ CanReceive(r, cap)
    /\ \E m \in Methods, p \in Paths, h \in Headers, b \in Bodies, d \in BOOLEAN :
        /\ Route(m, p) = "chat"
        /\ Update(r, [IdleReq EXCEPT !.pc = "chk_get", !.handler = "chat",
                        !.header = h, !.ip = Identity(h), !.body = b, !.docket = d,
                        !.now = clock, !.before = kv[Key(Identity(h))]])
    /\ received' = received + 1
    /\ UNCHANGED <<clock, kvBound, kv, served, client, vectordb>>

\* mutant of RateLimited: the result of the check is ignored
RateLimitedIgnored(res) == FALSE
\* if (!rateLimitResult.allowed)
RateLimited(res) == ~res.allowed

\* mutant of ChatCheck: the check creates the record of an identity it finds
\* without one (lazy creation at the check instead of at the record call)
ChatCheckCreates(r) ==
    /\ req[r].pc = "chk_get"
    /\ \E out \in GetOutcomes(Key(req[r].ip)) :
        LET res == checkRateLimit(out, req[r].now)
            cur == [req[r] EXCEPT !.seen = out, !.rl = res,
                                  !.calls = Append(@, "kv.get")]
        IN  /\ IF RateLimited(res)
               THEN Finish(r, cur, jsonResponse(429, res.retryAfter, -1))
               ELSE Update(r, [cur EXCEPT !.pc = "body"])
            /\ kv' = IF kvBound /\ out.ok /\ out.value = Null
                     THEN KvPut(Key(req[r].ip), FreshData(req[r].now))
                     ELSE kv
    /\ UNCHANGED <<clock, kvBound, received, served, client, vectordb>>
\* checkRateLimit after its get; handleChat answers 429 or goes on to the body
ChatCheck(r) ==
    /\ req[r].pc = "chk_get"
    /\ \E out \in GetOutcomes(Key(req[r].ip)) :
        LET res == checkRateLimit(out, req[r].now)
            cur == [req[r] EXCEPT !.seen = out, !.rl = res,
                                  !.calls = Append(@, "kv.get")]
        IN  IF RateLimited(res)
            THEN Finish(r, cur, jsonResponse(429, res.retryAfter, -1))
            ELSE Update(r, [cur EXCEPT !.pc = "body"])
    /\ UNCHANGED <<clock, kvBound, kv, received, served, client, vectordb>>

\* await request.json(); the message is required.  The locals of
\* checkRateLimit are out of scope from here on.
ChatBody(r) ==
    /\ req[r].pc = "body"
    /\ LET cur == [req[r] EXCEPT !.now = 0, !.seen = GetOk(Null)]
       IN  CASE cur.body = "unparsable" -> Finish(r, cur, Rejected)
             [] cur.body = "noMessage" -> Finish(r, cur, jsonResponse(400, -1, -1))
             [] OTHER -> Update(r, [cur EXCEPT !.pc = "embed"])
    /\ UNCHANGED <<clock, kvBound, kv, received, served, client, vectordb>>

\* mutant of AfterSearch: the quota is recorded before the completion is asked for
AfterSearchRecordsFirst(cur) == "inc_get"
\* after step 1: the analysis fetch when a docket is given, else the completion call
AfterSearch(cur) == IF cur.docket THEN "analysis" ELSE "complete"

\* mutant of SearchFailed: no catch, the failure ends the turn
SearchFailedAborts(cur) == [cur EXCEPT !.pc = "done", !.resp = Rejected]
\* catch (e) of step 1: log and continue without context
SearchFailed(cur) == [cur EXCEPT !.pc = AfterSearch(cur)]

\* await generateEmbedding(message, env), inside the try of step 1
ChatEmbed(r) ==
    /\ req[r].pc = "embed"
    /\ \/ Update(r, [req[r] EXCEPT !.pc = "search", !.calls = Append(@, "embedding")])
       \/ Update(r, SearchFailed([req[r] EXCEPT !.calls = Append(@, "embedding threw")]))
    /\ UNCHANGED <<clock, kvBound, kv, received, served, client, vectordb>>

\* await supabaseRpc(env, 'match_comments', ...), inside the try of step 1
ChatSearch(r) ==
    /\ req[r].pc = "search"
    /\ \/ \E n \in ResultSizes :
            Update(r, [req[r] EXCEPT !.pc = AfterSearch(req[r]), !.comments = n,
                                     !.calls = Append(@, "vectorSearch")])
       \/ Update(r, SearchFailed([req[r] EXCEPT !.calls = Append(@, "vectorSearch threw")]))
    /\ UNCHANGED <<clock, kvBound, kv, received, served, client, vectordb>>

\* await supabaseQuery(env, 'analyses', ...), inside the try of step 2
ChatAnalysis(r) ==
    /\ req[r].pc = "analysis"
    /\ \/ \E a \in {"undefined", "present"} :
            Update(r, [req[r] EXCEPT !.pc = "complete", !.analysis = a,
                                     !.calls = Append(@, "analysis")])
       \/ Update(r, [req[r] EXCEPT !.pc = "complete",
                                   !.calls = Append(@, "analysis threw")])
    /\ UNCHANGED <<clock, kvBound, kv, received, served, client, vectordb>>

\* steps 3 to 5: context, prompt, messages, then await fetch(anthropic) and the
\* body of its response; on success incrementRateLimit starts, up to its get
ChatComplete(r) ==
    /\ req[r].pc = "complete"
    /\ \/ Finish(r, [req[r] EXCEPT !.calls = Append(@, "completion threw")], Rejected)
       \/ Finish(r, [req[r] EXCEPT !.calls = Append(@, "completion not ok")],
                 jsonResponse(502, -1, -1))
       \/ Update(r, [req[r] EXCEPT !.pc = "inc_get", !.now = clock,
                                   !.calls = Append(@, "completion")])
    /\ UNCHANGED <<clock, kvBound, kv, received, served, client, vectordb>>

\* incrementRateLimit after its get: the data to store
ChatIncGet(r) ==
    /\ req[r].pc = "inc_get"
    /\ \E out \in GetOutcomes(Key(req[r].ip)) :
        Update(r, [req[r] EXCEPT !.pc = "inc_put", !.seen = out,
                                 !.data = incrementData(out, req[r].now),
                                 !.calls = Append(@, "kv.get")])
    /\ UNCHANGED <<clock, kvBound, kv, received, served, client, vectordb>>

\* incrementRateLimit's put inside its try (a throw is logged and swallowed),
\* then handleChat answers with the completion's text
ChatIncPut(r) ==
    /\ req[r].pc = "inc_put"
    /\ \/ /\ kvBound
          /\ kv' = KvPut(Key(req[r].ip), req[r].data)
          /\ Finish(r, [req[r] EXCEPT !.calls = Append(@, "kv.put")],
                    jsonResponse(200, -1, -1))
       \/ /\ kvBound
          /\ kv' = kv
          /\ Finish(r, [req[r] EXCEPT !.calls = Append(@, "kv.put threw")],
                    jsonResponse(200, -1, -1))
       \/ /\ ~kvBound
          /\ kv' = kv
          /\ Finish(r, req[r], jsonResponse(200, -1, -1))
    /\ served' = served + 1
    /\ UNCHANGED <<clock, kvBound, received, client, vectordb>>

\* the response of a finished handler goes back to the caller
Return(r) ==
    /\ req[r].pc = "done"
    /\ Update(r, IdleReq)
    /\ UNCHANGED <<clock, kvBound, kv, received, served, client, vectordb>>

Step(r) ==
    \/ Return(r)
    \/ ReceiveOptions(r, MaxRequests)
    \/ ReceiveNotFound(r, MaxRequests)
    \/ ReceiveStatus(r, MaxRequests)
    \/ StatusGet(r)
    \/ ReceiveChat(r, MaxRequests)
    \/ ChatCheck(r)
    \/ ChatBody(r)
    \/ ChatEmbed(r)
    \/ ChatSearch(r)
    \/ ChatAnalysis(r)
    \/ ChatComplete(r)
    \/ ChatIncGet(r)
    \/ ChatIncPut(r)

\* the worker serving one request at a time
Next ==
    \/ Tick
    \/ \E r \in SeqReqs : Step(r)

Spec == Init /\ [][Next]_vars

(***************************************************************************)
(* The chat client: chat.js over api-client.js                             *)
(***************************************************************************)
\* messages.find(m => m.id === id): the index of the first match, 0 when none
FindMessage(msgs, id) ==
    IF \E i \in 1..Len(msgs) : msgs[i].id = id
    THEN CHOOSE i \in 1..Len(msgs) :
            /\ msgs[i].id = id
            /\ \A j \in 1..(i - 1) : msgs[j].id # id
    ELSE 0

\* addMessage(role, content, loading); generateId() is taken to give a new id
addMessage(msgs, id, role, content, loading) ==
    Append(msgs, [id |-> id, role |-> role, content |-> content, loading |-> loading])

\* updateMessage(id, content)
updateMessage(msgs, id, content) ==
    LET i == FindMessage(msgs, id)
    IN  IF i = 0 THEN msgs ELSE [msgs EXCEPT ![i].content = content]

\* completeMessage(id, content)
completeMessage(msgs, id, content) ==
    LET i == FindMessage(msgs, id)
    IN  IF i = 0 THEN msgs
        ELSE [msgs EXCEPT ![i].content = content, ![i].loading = FALSE]

\* the arguments of a call of the api client
ApiCall(path, message, context, docket) ==
    [path |-> path, message |-> message, context |-> context, docket |-> docket]

\* getRelevantContext(message)
getRelevantContext(message) == <<>>

\* the status this worker gives to POST /chat/stream
WorkerStreamStatus == IF Route("POST", "/chat/stream") = "notFound" THEN 404 ELSE 200
\* the statuses of a stream attempt: this worker's, or 200 from a deployment
\* that serves the stream
StreamStatuses == {WorkerStreamStatus, 200}
\* the statuses of a /chat call
ChatStatuses == {200, 400, 429, 502}

UpdateHandler(h, new) == hs' = [hs EXCEPT ![h] = new]

\* mutant of RenderChat: the new scope also resets isLoading
RenderChatResetsLoading ==
    /\ \E d \in Dockets : currentDocketId' = d
    /\ messages' = <<>>
    /\ isLoading' = FALSE
    /\ UNCHANGED <<nextId, hs, submits, worker, vectordb>>
\* renderChat(container, docketId): a new scope, the conversation is reset
RenderChat ==
    /\ \E d \in Dockets : currentDocketId' = d
    /\ messages' = <<>>
    /\ UNCHANGED <<isLoading, nextId, hs, submits, worker, vectordb>>

\* handleSubmit up to the fetch of streamChatMessage; it returns at once when
\* nothing is typed or a turn is in flight
Submit(h) ==
    /\ hs[h].pc = "idle"
    /\ submits < MaxSubmits
    /\ \E message \in Inputs :
        /\ ~(message = "" \/ isLoading)
        /\ isLoading' = TRUE
        /\ messages' = addMessage(addMessage(messages, nextId, "user", <<<<message, 0>>>>, FALSE),
                                  nextId + 1, "assistant", EmptyText, TRUE)
        /\ nextId' = nextId + 2
        /\ UpdateHandler(h, [IdleHandler EXCEPT
                !.pc = "stream_fetch", !.message = message,
                !.docket = currentDocketId, !.loadingId = nextId + 1,
                !.stream = "pending",
                !.context = getRelevantContext(message),
                !.sent = <<ApiCall("/chat/stream", message,
                                   getRelevantContext(message), currentDocketId)>>])
    /\ submits' = submits + 1
    /\ UNCHANGED <<currentDocketId, worker, vectordb>>

\* mutant of StreamFailed: the failure of the stream ends the turn, no fallback
StreamFailedNoFallback(cur) == [cur EXCEPT !.pc = "done", !.stream = "failed"]
\* catch (streamError): sendChatMessage(message, context, options) up to its fetch
StreamFailed(cur) ==
    [cur EXCEPT !.pc = "send_fetch", !.stream = "failed", !.send = "pending",
                !.sent = Append(@, ApiCall("/chat", cur.message, cur.context, cur.docket))]

\* streamChatMessage after its fetch: a rejected fetch or a non-success status throws
StreamFetch(h) ==
    /\ hs[h].pc = "stream_fetch"
    /\ \/ UpdateHandler(h, StreamFailed(hs[h]))
       \/ \E status \in StreamStatuses :
            IF status # 200
            THEN UpdateHandler(h, StreamFailed(hs[h]))
            ELSE UpdateHandler(h, [hs[h] EXCEPT !.pc = "stream_read"])
    /\ UNCHANGED <<messages, isLoading, currentDocketId, nextId, submits, worker, vectordb>>

\* finally: isLoading = false; the turn is over
Finally(h, cur) ==
    /\ UpdateHandler(h, [cur EXCEPT !.pc = "done"])
    /\ isLoading' = FALSE

\* reader.read() gives a chunk: onChunk appends it and shows the text so far
StreamChunk(h) ==
    /\ hs[h].pc = "stream_read"
    /\ hs[h].chunks < MaxChunks
    /\ LET response == hs[h].response \o <<Chunk(hs[h].chunks + 1)>>
       IN  /\ UpdateHandler(h, [hs[h] EXCEPT !.response = response, !.chunks = @ + 1])
           /\ messages' = updateMessage(messages, hs[h].loadingId, response)
    /\ UNCHANGED <<isLoading, currentDocketId, nextId, submits, worker, vectordb>>

\* reader.read() gives done: the streamed text is the answer
StreamDone(h) ==
    /\ hs[h].pc = "stream_read"
    /\ messages' = completeMessage(messages, hs[h].loadingId, hs[h].response)
    /\ Finally(h, [hs[h] EXCEPT !.stream = "ok"])
    /\ UNCHANGED <<currentDocketId, nextId, submits, worker, vectordb>>

\* reader.read() rejects: the stream breaks after the chunks delivered so far
StreamBroken(h) ==
    /\ hs[h].pc = "stream_read"
    /\ UpdateHandler(h, StreamFailed(hs[h]))
    /\ UNCHANGED <<messages, isLoading, currentDocketId, nextId, submits, worker, vectordb>>

\* sendChatMessage after its fetch: data.response, or a throw (a rejected fetch,
\* a body that is not JSON, a non-success status) to the outer catch
SendFetch(h) ==
    /\ hs[h].pc = "send_fetch"
    /\ \/ /\ messages' = completeMessage(messages, hs[h].loadingId, ErrorText)
          /\ Finally(h, [hs[h] EXCEPT !.send = "failed"])
       \/ \E status \in ChatStatuses :
            IF status # 200
            THEN /\ messages' = completeMessage(messages, hs[h].loadingId, ErrorText)
                 /\ Finally(h, [hs[h] EXCEPT !.send = "failed"])
            ELSE /\ messages' = completeMessage(
                        updateMessage(messages, hs[h].loadingId, Answer),
                        hs[h].loadingId, Answer)
                 /\ Finally(h, [hs[h] EXCEPT !.send = "ok", !.response = Answer])
    /\ UNCHANGED <<currentDocketId, nextId, submits, worker, vectordb>>

\* the invocation has returned; its locals are gone
Settle(h) ==
    /\ hs[h].pc = "done"
    /\ UpdateHandler(h, IdleHandler)
    /\ UNCHANGED <<messages, isLoading, currentDocketId, nextId, submits, worker, vectordb>>

ClientStep(h) ==
    \/ Submit(h)
    \/ StreamFetch(h)
    \/ StreamChunk(h)
    \/ StreamDone(h)
    \/ StreamBroken(h)
    \/ SendFetch(h)
    \/ Settle(h)

NextClient ==
    \/ RenderChat
    \/ \E h \in Handlers : ClientStep(h)

SpecClient == Init /\ [][NextClient]_vars

(***************************************************************************)
(* The search library (vector-db.js): vectors and similarity               *)
(***************************************************************************)
Min(a, b) == IF a < b THEN a ELSE b

\* the components of a vector, and the vectors up to the largest dimension
Components == {-1, 0, 1}
Vectors == UNION {[1..n -> Components] : n \in 0..MaxDim}

\* throw new Error('Vectors must have same dimension')
DimensionError == [threw |-> "Vectors must have same dimension"]
IsError(x) == "threw" \in DOMAIN x

\* a number num / Math.sqrt(den2), kept exact (den2 = 0: NaN)
Number(num, den2) == [num |-> num, den2 |-> den2]
\* x < y for two such numbers, den2 > 0
NumberLess(x, y) ==
    IF x.num < 0 /\ y.num >= 0 THEN TRUE
    ELSE IF x.num >= 0 /\ y.num < 0 THEN FALSE
    ELSE IF x.num >= 0 THEN x.num * x.num * y.den2 < y.num * y.num * x.den2
    ELSE x.num * x.num * y.den2 > y.num * y.num * x.den2

\* the for loop of cosineSimilarity: the sum of a[i] * b[i] from i on
RECURSIVE SumProducts(_, _, _)
SumProducts(a, b, i) ==
    IF i > Len(a) THEN 0 ELSE a[i] * b[i] + SumProducts(a, b, i + 1)

\* mutant of cosineSimilarity: vectors of different length are cut to the shorter
cosineSimilarityTruncating(a, b) ==
    LET n == Min(Len(a), Len(b))
        x == SubSeq(a, 1, n)
        y == SubSeq(b, 1, n)
    IN  IF SumProducts(x, x, 1) = 0 \/ SumProducts(y, y, 1) = 0 THEN Number(0, 1)
        ELSE Number(SumProducts(x, y, 1), SumProducts(x, x, 1) * SumProducts(y, y, 1))
\* cosineSimilarity(a, b)
cosineSimilarity(a, b) ==
    IF Len(a) # Len(b) THEN DimensionError
    ELSE LET dotProduct == SumProducts(a, b, 1)
             normA2 == SumProducts(a, a, 1)
             normB2 == SumProducts(b, b, 1)
         IN  IF normA2 = 0 \/ normB2 = 0 THEN Number(0, 1)
             ELSE Number(dotProduct, normA2 * normB2)

\* the call has not returned yet
Pending == <<"pending">>
\* the call returns
Returns(result) ==
    /\ ~lib.returned
    /\ lib' = [lib EXCEPT !.result = result, !.returned = TRUE]
    /\ UNCHANGED <<embeddingsCache, fan, worker, client>>

\* the calls of cosineSimilarity
CosineCalls ==
    {[op |-> "cosineSimilarity", a |-> a, b |-> b, result |-> Pending, returned |-> FALSE] :
        a \in Vectors, b \in Vectors}
CosineSimilarity ==
    /\ lib.op = "cosineSimilarity"
    /\ Returns(cosineSimilarity(lib.a, lib.b))

(***************************************************************************)
(* The search library: embeddings data and searchSimilar                   *)
(***************************************************************************)
\* embeddingsData: null, an object without comments, an object with comments
NullData == [kind |-> "null"]
NoCommentsData == [kind |-> "object"]
Data(comments) == [kind |-> "object", comments |-> comments]
\* !embeddingsData || !embeddingsData.comments
NoComments(data) == data.kind = "null" \/ "comments" \notin DOMAIN data

\* comment.theme_ids: undefined, or the array of its themes
NoThemeIds == [defined |-> FALSE, ids |-> {}]
ThemeIds(ids) == [defined |-> TRUE, ids |-> ids]
\* a comment of the embeddings file; its text is kept as the set of the
\* search terms it contains
Comment(id, embedding, sentiment, theme_ids, text) ==
    [id |-> id, text_preview |-> text, sentiment |-> sentiment,
     theme_ids |-> theme_ids, embedding |-> embedding]

\* a value returned, as opposed to an error thrown
Value(v) == [value |-> v]

\* results.slice(0, end)
slice(results, end) ==
    IF end >= 0 THEN SubSeq(results, 1, Min(end, Len(results)))
    ELSE SubSeq(results, 1, Max(Len(results) + end, 0))

\* mutant of CompareScore: ascending
CompareScoreAscending(a, b) ==
    IF NumberLess(a.score, b.score) THEN -1
    ELSE IF NumberLess(b.score, a.score) THEN 1 ELSE 0
\* (a, b) => b.score - a.score, by its sign
CompareScore(a, b) ==
    IF NumberLess(b.score, a.score) THEN -1
    ELSE IF NumberLess(a.score, b.score) THEN 1 ELSE 0

\* Array.prototype.sort with CompareScore: stable, an element goes behind the
\* elements it does not have to precede
RECURSIVE InsertByScore(_, _)
InsertByScore(sorted, x) ==
    IF sorted = <<>> THEN <<x>>
    ELSE IF CompareScore(x, Head(sorted)) < 0 THEN <<x>> \o sorted
    ELSE <<Head(sorted)>> \o InsertByScore(Tail(sorted), x)
RECURSIVE SortByScore(_)
SortByScore(results) ==
    IF results = <<>> THEN <<>>
    ELSE InsertByScore(SortByScore(SubSeq(results, 1, Len(results) - 1)),
                       results[Len(results)])

\* searchSimilar(queryEmbedding, embeddingsData, topK)
searchSimilar(queryEmbedding, embeddingsData, topK) ==
    IF NoComments(embeddingsData) THEN Value(<<>>)
    ELSE LET comments == embeddingsData.comments
             results == [i \in 1..Len(comments) |->
                [id |-> comments[i].id, text |-> comments[i].text_preview,
                 sentiment |-> comments[i].sentiment, themes |-> comments[i].theme_ids,
                 score |-> cosineSimilarity(queryEmbedding, comments[i].embedding)]]
         IN  IF \E i \in 1..Len(comments) : IsError(results[i].score)
             THEN DimensionError
             ELSE Value(slice(SortByScore(results), topK))

\* the embeddings of the comments of an index, one dimension throughout: the
\* zero vector, a unit vector, the vector of ones
IndexEmbeddings ==
    {[i \in 1..MaxDim |-> 0], [i \in 1..MaxDim |-> IF i = 1 THEN 1 ELSE 0],
     [i \in 1..MaxDim |-> 1]}
\* the index built from a list of embeddings; the id of a comment is its place
IndexOf(embeddings) ==
    Data([i \in 1..Len(embeddings) |->
            Comment(i, embeddings[i], "oppose", NoThemeIds, {})])
\* no data, no comments, and the indexes of up to size comments
SimilarIndexes(size) ==
    {NullData, NoCommentsData} \cup
    {IndexOf(e) : e \in UNION {[1..n -> IndexEmbeddings] : n \in 0..size}}

\* the calls of searchSimilar on the given indexes
SimilarCalls(indexes) ==
    {[op |-> "searchSimilar", queryEmbedding |-> q, embeddingsData |-> d, topK |-> k,
      result |-> Pending, returned |-> FALSE] :
        q \in Vectors, d \in indexes, k \in 0..MaxTopK}
SearchSimilar ==
    /\ lib.op = "searchSimilar"
    /\ Returns(searchSimilar(lib.queryEmbedding, lib.embeddingsData, lib.topK))

(***************************************************************************)
(* The search component (search.js) over textSearch                        *)
(***************************************************************************)
\* matchCount / queryTerms.length, kept exact (den = 0: NaN)
Fraction(num, den) == [num |-> num, den |-> den]
\* x > 0; false for NaN
Positive(x) == x.den > 0 /\ x.num > 0
\* x < y for two fractions that are numbers
FractionLess(x, y) == x.num * y.den < y.num * x.den

\* queryTerms.filter(term => textLower.includes(term)).length
RECURSIVE MatchCount(_, _)
MatchCount(queryTerms, text) ==
    IF queryTerms = <<>> THEN 0
    ELSE (IF Head(queryTerms) \in text THEN 1 ELSE 0) + MatchCount(Tail(queryTerms), text)

\* (a, b) => b.matchScore - a.matchScore, by its sign
CompareMatch(a, b) ==
    IF FractionLess(b.matchScore, a.matchScore) THEN -1
    ELSE IF FractionLess(a.matchScore, b.matchScore) THEN 1 ELSE 0

\* Array.prototype.sort with CompareMatch (stable)
RECURSIVE InsertByMatch(_, _)
InsertByMatch(sorted, x) ==
    IF sorted = <<>> THEN <<x>>
    ELSE IF CompareMatch(x, Head(sorted)) < 0 THEN <<x>> \o sorted
    ELSE <<Head(sorted)>> \o InsertByMatch(Tail(sorted), x)
RECURSIVE SortByMatch(_)
SortByMatch(results) ==
    IF results = <<>> THEN <<>>
    ELSE InsertByMatch(SortByMatch(SubSeq(results, 1, Len(results) - 1)),
                       results[Len(results)])

\* textSearch(query, comments), the query given by its terms longer than 2
textSearch(queryTerms, comments) ==
    LET scored == [i \in 1..Len(comments) |->
                    comments[i] @@ [matchScore |->
                        Fraction(MatchCount(queryTerms, comments[i].text_preview),
                                 Len(queryTerms))]]
    IN  SortByMatch(SelectSeq(scored, LAMBDA c : Positive(c.matchScore)))

\* a trimmed search input: empty or not, and its terms longer than 2
Query(given, terms) == [given |-> given, terms |-> terms]

\* mutant of performSearch: the cut to 20 is taken before the filters
performSearchCutFirst(query, sentiment, theme, embeddingsData) ==
    IF NoComments(embeddingsData) THEN <<>>
    ELSE LET all == slice(embeddingsData.comments, MAX_RESULTS)
             bySentiment == IF sentiment # ""
                            THEN SelectSeq(all, LAMBDA c : c.sentiment = sentiment)
                            ELSE all
             byTheme == IF theme # ""
                        THEN SelectSeq(bySentiment,
                                LAMBDA c : c.theme_ids.defined /\ theme \in c.theme_ids.ids)
                        ELSE bySentiment
         IN  IF query.given THEN textSearch(query.terms, byTheme) ELSE byTheme
\* performSearch: the results handed to renderResults
performSearch(query, sentiment, theme, embeddingsData) ==
    LET results ==
            IF NoComments(embeddingsData) THEN <<>>
            ELSE LET all == embeddingsData.comments
                     bySentiment == IF sentiment # ""
                                    THEN SelectSeq(all, LAMBDA c : c.sentiment = sentiment)
                                    ELSE all
                     byTheme == IF theme # ""
                                THEN SelectSeq(bySentiment,
                                        LAMBDA c : c.theme_ids.defined
                                                   /\ theme \in c.theme_ids.ids)
                                ELSE bySentiment
                 IN  IF query.given THEN textSearch(query.terms, byTheme) ELSE byTheme
    IN  slice(results, MAX_RESULTS)

\* the values of the two filters; "" is no filter
SentimentFilters == {"", "oppose", "support"}
ThemeFilters == {"", "fuel"}
\* search inputs: empty, only short words, one term, two terms
Queries ==
    {Query(FALSE, <<>>), Query(TRUE, <<>>), Query(TRUE, <<"epa">>),
     Query(TRUE, <<"epa", "rule">>)}

\* the kinds of comment of an index of the search component
CommentKinds ==
    [sentiment : {"oppose", "support"}, theme_ids : {NoThemeIds, ThemeIds({"fuel"})},
     text : {{}, {"epa"}, {"epa", "rule"}}]
\* the index of n comments that repeats a block of kinds; ids are places
PatternIndex(block, n) ==
    Data([i \in 1..n |->
            LET kind == block[((i - 1) % Len(block)) + 1]
            IN  Comment(i, [d \in 1..MaxDim |-> 1], kind.sentiment, kind.theme_ids,
                        kind.text)])
\* sizes up to 1, and sizes above the number of results shown
TextSizes == (0..1) \cup {MAX_RESULTS + x : x \in 1..MaxExtra}
TextIndexes(sizes) ==
    {NullData, NoCommentsData} \cup
    {PatternIndex(block, n) : block \in [1..2 -> CommentKinds], n \in sizes}

\* the runs of performSearch on the given indexes
PerformCalls(indexes) ==
    {[op |-> "performSearch", query |-> q, sentiment |-> sentiment, theme |-> theme,
      embeddingsData |-> d, result |-> Pending, returned |-> FALSE] :
        q \in Queries, sentiment \in SentimentFilters, theme \in ThemeFilters,
        d \in indexes}
PerformSearch ==
    /\ lib.op = "performSearch"
    /\ Returns(performSearch(lib.query, lib.sentiment, lib.theme, lib.embeddingsData))

(***************************************************************************)
(* The search library: clusterComments                                     *)
(***************************************************************************)
\* embeddingsData.comments.length < k, or no comments at all
TooFewComments(embeddingsData, k) ==
    NoComments(embeddingsData) \/ Len(embeddingsData.comments) < k

\* mutant of Picks: the loop does not look at usedIndices, an index can be
\* drawn more than once
PicksWithReplacement(embeddingsData, k) ==
    IF NoComments(embeddingsData) THEN {}
    ELSE [1..Max(k, 0) -> 1..Len(embeddingsData.comments)]
\* the while loop: the indices Math.random() can give the k centroids, each
\* index once, in the order drawn; the loop cannot end when k exceeds the
\* number of comments
Picks(embeddingsData, k) ==
    IF NoComments(embeddingsData) THEN {}
    ELSE LET n == Len(embeddingsData.comments)
         IN  {p \in [1..Max(k, 0) -> 1..n] :
                \A i \in DOMAIN p, j \in DOMAIN p : i # j => p[i] # p[j]}

\* centroids.forEach: the best cluster (counted from 0) and score from idx on
RECURSIVE Nearest(_, _, _, _)
Nearest(embedding, centroids, idx, best) ==
    IF idx > Len(centroids) THEN best
    ELSE LET score == cosineSimilarity(embedding, centroids[idx])
         IN  IF NumberLess(best.score, score)
             THEN Nearest(embedding, centroids, idx + 1, [cluster |-> idx - 1, score |-> score])
             ELSE Nearest(embedding, centroids, idx + 1, best)

\* mutant of clusterComments: no test of k against the number of comments
clusterCommentsUnguarded(embeddingsData, k, picks) ==
    IF NoComments(embeddingsData) THEN Value(<<>>)
    ELSE LET comments == embeddingsData.comments
             centroids == [i \in DOMAIN picks |-> comments[picks[i]].embedding]
         IN  Value([i \in 1..Len(comments) |->
                LET best == Nearest(comments[i].embedding, centroids, 1,
                                    [cluster |-> 0, score |-> Number(-1, 1)])
                IN  [commentId |-> comments[i].id, cluster |-> best.cluster,
                     score |-> best.score]])
\* clusterComments(embeddingsData, k), the centroids drawn at the indices picks
clusterComments(embeddingsData, k, picks) ==
    IF TooFewComments(embeddingsData, k) THEN Value(<<>>)
    ELSE LET comments == embeddingsData.comments
             centroids == [i \in DOMAIN picks |-> comments[picks[i]].embedding]
         IN  Value([i \in 1..Len(comments) |->
                LET best == Nearest(comments[i].embedding, centroids, 1,
                                    [cluster |-> 0, score |-> Number(-1, 1)])
                IN  [commentId |-> comments[i].id, cluster |-> best.cluster,
                     score |-> best.score]])

\* the calls of clusterComments on the given indexes: k from 0 to one more
\* than the largest index
ClusterCalls(indexes) ==
    {[op |-> "clusterComments", embeddingsData |-> d, k |-> k,
      result |-> Pending, returned |-> FALSE] :
        d \in indexes, k \in 0..(MaxIndex + 1)}
ClusterComments ==
    /\ lib.op = "clusterComments"
    /\ IF TooFewComments(lib.embeddingsData, lib.k)
       THEN Returns(clusterComments(lib.embeddingsData, lib.k, <<>>))
       ELSE \E picks \in Picks(lib.embeddingsData, lib.k) :
                Returns(clusterComments(lib.embeddingsData, lib.k, picks))

(***************************************************************************)
(* The search library: loadEmbeddings and searchAcrossDockets              *)
(***************************************************************************)
\* the query of a search across dockets
FanQuery == [i \in 1..MaxDim |-> IF i = 1 THEN 1 ELSE 0]
\* what response.json() of an embeddings file can give: null, an object
\* without comments, an index, an index of another dimension than the query
DocketFiles ==
    {NullData, NoCommentsData,
     IndexOf(<<[i \in 1..MaxDim |-> 1], FanQuery>>),
     IndexOf(<<[i \in 1..(MaxDim + 1) |-> 1]>>)}
\* the answers to the fetch of an embeddings file
FetchOutcomes == {"rejected", "not ok", "ok"}

NotLoaded == [kind |-> "pending"]
\* the lists of docket ids of a call
DocketLists == UNION {[1..n -> DocketIds] : n \in 0..MaxDockets}

\* the callback of docketIds.map after loadEmbeddings has returned embeddings
\* for the i-th docket id: if (embeddings) results[docketId] = searchSimilar(...)
Loaded(cur, i, embeddings) ==
    LET done == [cur EXCEPT !.at[i] = "done", !.loaded[i] = embeddings]
        found == searchSimilar(FanQuery, embeddings, DEFAULT_TOP_K)
    IN  IF embeddings = NullData THEN done
        ELSE IF IsError(found) THEN [done EXCEPT !.pc = "rejected"]
        ELSE [done EXCEPT !.results[cur.docketIds[i]] = found]

\* mutant of LoadFailed: the failure of a load rejects the whole search
LoadFailedAborts(cur, i) ==
    [cur EXCEPT !.at[i] = "done", !.loaded[i] = NullData, !.pc = "rejected"]
\* loadEmbeddings returns null: the response is not ok, or the catch
LoadFailed(cur, i) == Loaded(cur, i, NullData)

\* searchAcrossDockets up to the first await of every callback: loadEmbeddings
\* returns the cached value or starts the fetch
FanStart ==
    /\ fan.pc = "idle"
    /\ \E docketIds \in DocketLists :
        fan' = [IdleFan EXCEPT
                  !.pc = "running", !.docketIds = docketIds,
                  !.at = [i \in DOMAIN docketIds |->
                            IF embeddingsCache[docketIds[i]] = NotCached
                            THEN "fetch" ELSE "cached"],
                  !.loaded = [i \in DOMAIN docketIds |->
                            IF embeddingsCache[docketIds[i]] = NotCached
                            THEN NotLoaded ELSE embeddingsCache[docketIds[i]].data]]
    /\ UNCHANGED <<embeddingsCache, lib, worker, client>>

\* the callback goes on with the cached embeddings
FanCached(i) ==
    /\ i \in DOMAIN fan.at /\ fan.at[i] = "cached"
    /\ fan' = Loaded(fan, i, fan.loaded[i])
    /\ UNCHANGED <<embeddingsCache, lib, worker, client>>

\* loadEmbeddings after its fetch
FanFetch(i) ==
    /\ i \in DOMAIN fan.at /\ fan.at[i] = "fetch"
    /\ \E outcome \in FetchOutcomes :
        IF outcome = "ok" THEN fan' = [fan EXCEPT !.at[i] = "json"]
        ELSE fan' = LoadFailed(fan, i)
    /\ UNCHANGED <<embeddingsCache, lib, worker, client>>

\* loadEmbeddings after response.json(): the data is cached and returned
FanJson(i) ==
    /\ i \in DOMAIN fan.at /\ fan.at[i] = "json"
    /\ \/ /\ fan' = LoadFailed(fan, i)
          /\ UNCHANGED embeddingsCache
       \/ \E data \in DocketFiles :
            /\ embeddingsCache' = [embeddingsCache EXCEPT ![fan.docketIds[i]] = Cached(data)]
            /\ fan' = Loaded(fan, i, data)
    /\ UNCHANGED <<lib, worker, client>>

\* Promise.all has resolved: return results
FanReturn ==
    /\ fan.pc = "running"
    /\ \A i \in DOMAIN fan.at : fan.at[i] = "done"
    /\ fan' = [fan EXCEPT !.pc = "returned"]
    /\ UNCHANGED <<embeddingsCache, lib, worker, client>>

\* the call is over and its callbacks have run; the cache stays
FanSettle ==
    /\ fan.pc \in {"returned", "rejected"}
    /\ \A i \in DOMAIN fan.at : fan.at[i] = "done"
    /\ fan' = IdleFan
    /\ UNCHANGED <<embeddingsCache, lib, worker, client>>

NextFan ==
    \/ FanStart
    \/ \E i \in 1..MaxDockets : FanCached(i) \/ FanFetch(i) \/ FanJson(i)
    \/ FanReturn
    \/ FanSettle

(***************************************************************************)
(* The search library: textSearch on strings.  A string is the sequence of *)
(* its characters; textSearch above is the same function over a query      *)
(* given by its kept terms and texts given by the terms they contain.      *)
(***************************************************************************)
\* String.prototype.toLowerCase, character by character
toLowerCase(s) ==
    [i \in 1..Len(s) |-> CASE s[i] = "A" -> "a" [] s[i] = "B" -> "b" [] OTHER -> s[i]]

\* s without its leading white space
RECURSIVE DropSpaces(_)
DropSpaces(s) == IF s # <<>> /\ Head(s) = " " THEN DropSpaces(Tail(s)) ELSE s

\* s.split(/\s+/), cur the piece read so far: white space at either end
\* gives an empty piece there
RECURSIVE split(_, _)
split(s, cur) ==
    IF s = <<>> THEN <<cur>>
    ELSE IF Head(s) = " " THEN <<cur>> \o split(DropSpaces(Tail(s)), <<>>)
    ELSE split(Tail(s), Append(cur, Head(s)))

\* text.includes(term)
includes(text, term) ==
    \E i \in 0..(Len(text) - Len(term)) : SubSeq(text, i + 1, i + Len(term)) = term

\* mutant of queryTerms: terms of 2 characters are kept
queryTermsKeepsTwo(query) ==
    SelectSeq(split(toLowerCase(query), <<>>), LAMBDA t : Len(t) >= 2)
\* queryLower.split(/\s+/).filter(t => t.length > 2)
queryTerms(query) ==
    SelectSeq(split(toLowerCase(query), <<>>), LAMBDA t : Len(t) > 2)

\* queryTerms.filter(term => textLower.includes(term)).length
RECURSIVE IncludedCount(_, _)
IncludedCount(terms, textLower) ==
    IF terms = <<>> THEN 0
    ELSE (IF includes(textLower, Head(terms)) THEN 1 ELSE 0)
            + IncludedCount(Tail(terms), textLower)

\* textSearch(query, comments) on strings
textSearchStrings(query, comments) ==
    LET terms == queryTerms(query)
        scored == [i \in 1..Len(comments) |->
                    comments[i] @@ [matchScore |->
                        Fraction(IncludedCount(terms, toLowerCase(comments[i].text_preview)),
                                 Len(terms))]]
    IN  SortByMatch(SelectSeq(scored, LAMBDA c : Positive(c.matchScore)))

\* queries: empty, only short words, one term in upper case, two terms, a term
\* twice, white space at the ends
StringQueries ==
    {<<>>, <<"a", "b">>, <<"A", "B", "A">>, <<"a", "b", "a", " ", "B", "A", "B">>,
     <<"a", "b", "a", " ", " ", "a", "b", "a">>, <<" ", "b", "a", "b", " ", "a", "b">>,
     <<"a", "b", " ", "b", "a", " ">>}
\* texts: none, in upper case, holding both terms, holding neither
StringTexts ==
    {<<>>, <<"A", "B", "A">>, <<"b", "a", "B", "A", "b">>, <<"a", "b", " ", "b", "a">>}

\* the calls of textSearch on up to size comments; the id of a comment is its place
StringCalls(size) ==
    {[op |-> "textSearch", query |-> q,
      comments |-> [i \in 1..Len(texts) |-> Comment(i, <<>>, "oppose", NoThemeIds, texts[i])],
      result |-> Pending, returned |-> FALSE] :
        q \in StringQueries, texts \in UNION {[1..n -> StringTexts] : n \in 0..size}}
TextSearch ==
    /\ lib.op = "textSearch"
    /\ Returns(textSearchStrings(lib.query, lib.comments))
\* the calls of the library's functions on indexes of the given sizes
Calls(size, textSizes) ==
    CosineCalls \cup SimilarCalls(SimilarIndexes(size))
        \cup PerformCalls(TextIndexes(textSizes))
        \cup ClusterCalls(SimilarIndexes(size))
        \cup StringCalls(size)

\* a page that has loaded the library and calls one of its functions
InitSearch ==
    /\ ClientInit
    /\ clock = 0
    /\ kvBound = TRUE
    /\ kv = [k \in Keys |-> Null]
    /\ req = [r \in Reqs |-> IdleReq]
    /\ received = 0
    /\ served = 0
    /\ embeddingsCache = [d \in DocketIds |-> NotCached]
    /\ lib \in Calls(MaxIndex, TextSizes)
    /\ fan = IdleFan

NextSearch ==
    \/ CosineSimilarity
    \/ SearchSimilar
    \/ PerformSearch
    \/ ClusterComments
    \/ TextSearch

SpecSearch == InitSearch /\ [][NextSearch]_vars

\* a page that has loaded the library and searches across dockets
InitFan ==
    /\ ClientInit
    /\ VectorDbInit
    /\ clock = 0
    /\ kvBound = TRUE
    /\ kv = [k \in Keys |-> Null]
    /\ req = [r \in Reqs |-> IdleReq]
    /\ received = 0
    /\ served = 0

SpecFan == InitFan /\ [][NextFan]_vars

\* whether the log of calls of a request holds the entry c
Called(q, c) == \E i \in 1..Len(q.calls) : q.calls[i] = c

(***************************************************************************)
(* The quota cycle: chat turns of one identity, one after another, against *)
(* a reliable store that starts empty, every collaborator answering.       *)
(***************************************************************************)
CycleHeader == "203.0.113.7"
CycleKey == Key(Identity(CycleHeader))
\* enough requests for a full window, its denial and the restart
CycleRequests == MAX_REQUESTS_PER_DAY + MaxRequests

ReliableCalls == {"kv.get", "embedding", "vectorSearch", "completion", "kv.put"}

\* the request is a chat turn of the cycle's identity on which nothing has failed
CycleTurn(q) ==
    /\ q.ip = Identity(CycleHeader)
    /\ q.body = "ok" /\ ~q.docket
    /\ q.seen.ok
    /\ \A i \in 1..Len(q.calls) : q.calls[i] \in ReliableCalls
    /\ Called(q, "vectorSearch") => q.comments = 5

InitCycle ==
    /\ ClientInit
    /\ VectorDbInit
    /\ clock = 0
    /\ kvBound = TRUE
    /\ kv = [k \in Keys |-> Null]
    /\ req = [r \in Reqs |-> IdleReq]
    /\ received = 0
    /\ served = 0

CycleStep(r) ==
    \/ Return(r)
    \/ ReceiveChat(r, CycleRequests) /\ CycleTurn(req'[r])
    \/ ChatCheck(r) /\ CycleTurn(req'[r])
    \/ ChatBody(r) /\ CycleTurn(req'[r])
    \/ ChatEmbed(r) /\ CycleTurn(req'[r])
    \/ ChatSearch(r) /\ CycleTurn(req'[r])
    \/ ChatComplete(r) /\ CycleTurn(req'[r])
    \/ ChatIncGet(r) /\ CycleTurn(req'[r])
    \/ ChatIncPut(r) /\ CycleTurn(req'[r])

\* the turns of the cycle lie inside the window: time passes between them
CycleTick == Tick /\ \A r \in Reqs : req[r].pc = "idle"

NextCycle ==
    \/ CycleTick
    \/ \E r \in SeqReqs : CycleStep(r)

SpecCycle == InitCycle /\ [][NextCycle]_vars

(***************************************************************************)
(* Concurrent chat turns of one identity: two requests in flight at once,  *)
(* the counter store may fail, every other collaborator answers.           *)
(***************************************************************************)
\* requests of one behaviour
RaceRequests == MaxRequests

RaceCalls == ReliableCalls \cup {"kv.put threw"}

\* a chat turn of the cycle's identity; only the counter store may fail on it
RaceTurn(q) ==
    /\ q.ip = Identity(CycleHeader)
    /\ q.body = "ok" /\ ~q.docket
    /\ \A i \in 1..Len(q.calls) : q.calls[i] \in RaceCalls
    /\ Called(q, "vectorSearch") => q.comments = 5

\* the store is empty, or holds the record of a turn answered at time 0
RaceStores ==
    {Null, Some([value |-> Record(1, WINDOW_MS),
                 expiresAt |-> EXPIRATION_TTL * MS_PER_SECOND])}

InitRace ==
    /\ ClientInit
    /\ VectorDbInit
    /\ clock = 1
    /\ kvBound = TRUE
    /\ \E stored \in RaceStores :
            kv = [k \in Keys |-> IF k = CycleKey THEN stored ELSE Null]
    /\ req = [r \in Reqs |-> IdleReq]
    /\ received = 0
    /\ served = 0

RaceStep(r) ==
    \/ Return(r)
    \/ ReceiveChat(r, RaceRequests) /\ RaceTurn(req'[r])
    \/ ChatCheck(r) /\ RaceTurn(req'[r])
    \/ ChatBody(r) /\ RaceTurn(req'[r])
    \/ ChatEmbed(r) /\ RaceTurn(req'[r])
    \/ ChatSearch(r) /\ RaceTurn(req'[r])
    \/ ChatComplete(r) /\ RaceTurn(req'[r])
    \/ ChatIncGet(r) /\ RaceTurn(req'[r])
    \/ ChatIncPut(r) /\ RaceTurn(req'[r])

\* the worker serving requests concurrently
NextRace ==
    \/ Tick
    \/ \E r \in Reqs : RaceStep(r)

SpecRace == InitRace /\ [][NextRace]_vars

(***************************************************************************)
(* Properties of the worker                                                *)
(***************************************************************************)
\* the collaborators behind the quota check, with every outcome they can have
Downstream ==
    {"embedding", "embedding threw", "vectorSearch", "vectorSearch threw",
     "analysis", "analysis threw", "completion", "completion not ok",
     "completion threw", "kv.put", "kv.put threw"}

\* a state in which checkRateLimit has just returned to handleChat
Checked(q) ==
    /\ q.handler = "chat"
    /\ q.pc = "body" \/ (q.pc = "done" /\ q.resp.status = 429)

\* a state in which the put of incrementRateLimit has just stored its data
Recorded(q) ==
    /\ q.handler = "chat" /\ q.pc = "done"
    /\ Called(q, "kv.put")

\* the record a successful get returned is present and its window is open at now
Tracked(out, now) == out.ok /\ out.value # Null /\ now <= out.value[1].resetAt
\* a successful get found no record, or one whose window is over at now
Fresh(out, now) == out.ok /\ (out.value = Null \/ now > out.value[1].resetAt)

\* C1: when checkRateLimit denies, handleChat ends at once with a 429 that
\* carries the retryAfter of the check, and the only call the request has made
\* is the get of the check: no embedding, vector search, analysis fetch,
\* completion call or counter-store write, and the store is as it was.
C1_DeniedFailsFast ==
    \A r \in Reqs :
        LET q == req[r] IN
        (q.handler = "chat" /\ ~q.rl.allowed) =>
            /\ q.pc = "done"
            /\ q.resp = jsonResponse(429, q.rl.retryAfter, -1)
            /\ \A i \in 1..Len(q.calls) : q.calls[i] \notin Downstream
            /\ kv[Key(q.ip)] = q.before

C1_Witness ==
    \E r \in Reqs :
        /\ req[r].handler = "chat" /\ req[r].pc = "done"
        /\ ~req[r].rl.allowed /\ req[r].resp.status = 429

\* C2 (as claimed): a chat turn whose completion call failed, by a non-success
\* status or by the call itself failing, has answered 502 and left the stored
\* record of its identity as it was.
C2_CompletionFailureIs502 ==
    \A r \in Reqs :
        LET q == req[r] IN
        (q.pc = "done" /\ (Called(q, "completion not ok") \/ Called(q, "completion threw"))) =>
            /\ q.resp = jsonResponse(502, -1, -1)
            /\ kv[Key(q.ip)] = q.before

\* the stored record of the cycle's identity belongs to the first window of the
\* behaviour, the one opened on day 0 (every later window ends after day 1)
FirstWindow ==
    /\ kv[CycleKey] # Null
    /\ kv[CycleKey][1].value.resetAt < 2 * WINDOW_MS

\* the first window is open and its record is still in the store
FirstWindowOpen ==
    /\ FirstWindow
    /\ clock <= kv[CycleKey][1].value.resetAt
    /\ KvValue(CycleKey) # Null

\* C3: with a reliable store and turns one after another, (1) inside the first
\* window the stored count is the number of completed check+record cycles and
\* never exceeds the limit; (2) every check made while fewer than limit cycles
\* have completed is allowed; (3) a check made in the open first window after
\* limit cycles is denied; (4) once the clock has passed resetAt the status
\* query reports the full limit, the next check is allowed and the next record
\* stores count 1 with a new window.
C3_QuotaCycle ==
    /\ FirstWindow =>
          /\ kv[CycleKey][1].value.count = served
          /\ served <= MAX_REQUESTS_PER_DAY
    /\ \A r \in Reqs :
          LET q == req[r] IN
          /\ (Checked(q) /\ served < MAX_REQUESTS_PER_DAY) => q.rl.allowed
          /\ (Checked(q) /\ served = MAX_REQUESTS_PER_DAY /\ FirstWindowOpen)
                  => ~q.rl.allowed
          /\ (Checked(q) /\ kv[CycleKey] # Null
                /\ q.now > kv[CycleKey][1].value.resetAt) => q.rl.allowed
          /\ (Recorded(q) /\ q.seen.value # Null /\ q.now > q.seen.value[1].resetAt)
                  => kv[CycleKey][1].value = Record(1, q.now + WINDOW_MS)
    /\ (kv[CycleKey] # Null /\ clock > kv[CycleKey][1].value.resetAt)
          => getRemainingRequests(GetOk(KvValue(CycleKey)), clock) = MAX_REQUESTS_PER_DAY

\* the check after limit completed cycles, denied inside the first window
C3_Witness ==
    \E r \in Reqs :
        /\ Checked(req[r]) /\ ~req[r].rl.allowed
        /\ served = MAX_REQUESTS_PER_DAY /\ FirstWindowOpen

\* the restart: a full first window, then a record that stored count 1 over it
C3_RestartReached ==
    \E r \in Reqs :
        /\ Recorded(req[r]) /\ served = MAX_REQUESTS_PER_DAY + 1
        /\ req[r].seen.value # Null /\ req[r].now > req[r].seen.value[1].resetAt
        /\ kv[CycleKey][1].value.count = 1

\* C11 (as claimed): of the chat turns of one identity made inside one minute
\* at most 5 are allowed: a check made after 5 turns were answered in the first
\* minute of the behaviour denies.
C11_BurstLimit ==
    \A r \in Reqs :
        (Checked(req[r]) /\ clock < MINUTE_MS /\ served >= BURST_PER_MINUTE)
            => ~req[r].rl.allowed

\* C4: the decision of checkRateLimit over what its get returned and its now:
\* no record or a window that is over gives allowed; an open window gives
\* allowed below the limit and denied from the limit on, with retryAfter the
\* time left until resetAt in whole seconds, rounded up.
C4_CheckDecision ==
    \A r \in Reqs :
        LET q == req[r] IN
        Checked(q) =>
            /\ Fresh(q.seen, q.now) => q.rl.allowed
            /\ (Tracked(q.seen, q.now) /\ q.seen.value[1].count < MAX_REQUESTS_PER_DAY)
                    => q.rl.allowed
            /\ (Tracked(q.seen, q.now) /\ q.seen.value[1].count >= MAX_REQUESTS_PER_DAY)
                    => /\ ~q.rl.allowed
                       /\ (q.rl.retryAfter - 1) * MS_PER_SECOND < q.seen.value[1].resetAt - q.now
                       /\ q.seen.value[1].resetAt - q.now <= q.rl.retryAfter * MS_PER_SECOND

\* a denial whose remaining time is not a whole number of seconds
C4_Witness ==
    \E r \in Reqs :
        /\ Checked(req[r]) /\ Tracked(req[r].seen, req[r].now) /\ ~req[r].rl.allowed
        /\ req[r].seen.value[1].resetAt - req[r].now < req[r].rl.retryAfter * MS_PER_SECOND

\* C5: what incrementRateLimit stores, over what its get returned and its now:
\* {count: 1, resetAt: now + window} when there was no record or its window was
\* over (a get that threw counts as no record); the count read plus one with
\* resetAt unchanged when the window was open.
C5_RecordStores ==
    \A r \in Reqs :
        LET q == req[r]
            stored == kv[Key(q.ip)]
        IN  Recorded(q) =>
            /\ stored # Null
            /\ (Fresh(q.seen, q.now) \/ ~q.seen.ok)
                    => stored[1].value = Record(1, q.now + WINDOW_MS)
            /\ Tracked(q.seen, q.now)
                    => stored[1].value =
                          Record(q.seen.value[1].count + 1, q.seen.value[1].resetAt)

\* a record call on an open window has stored the next count
C5_Witness ==
    \E r \in Reqs :
        /\ Recorded(req[r]) /\ Tracked(req[r].seen, req[r].now)
        /\ kv[Key(req[r].ip)][1].value.count = req[r].seen.value[1].count + 1

\* C6 (as claimed): every 429 carries a retryAfter greater than 0.
C6_RetryAfterPositive ==
    \A r \in Reqs :
        (req[r].pc = "done" /\ req[r].resp.status = 429) => req[r].resp.retryAfter > 0

\* a failure of the embedding call, the vector search or the analysis fetch
SoftFailure(q) ==
    Called(q, "embedding threw") \/ Called(q, "vectorSearch threw")
        \/ Called(q, "analysis threw")

\* C7: a failed embedding call or vector search leaves the result set empty, a
\* failed analysis fetch leaves no analysis, and neither ends the turn: a turn
\* with such a failure is over only once the completion call was made, and when
\* that call succeeded the turn answers 200 with its text.
C7_SoftFailuresContinue ==
    \A r \in Reqs :
        LET q == req[r] IN
        /\ (Called(q, "embedding threw") \/ Called(q, "vectorSearch threw"))
                => q.comments = 0
        /\ Called(q, "analysis threw") => q.analysis = "null"
        /\ (SoftFailure(q) /\ q.pc = "done")
                => \/ Called(q, "completion") /\ q.resp.status = 200
                   \/ Called(q, "completion not ok")
                   \/ Called(q, "completion threw")

C7_Witness ==
    \E r \in Reqs :
        /\ req[r].pc = "done" /\ req[r].resp.status = 200
        /\ Called(req[r], "embedding threw") /\ Called(req[r], "analysis threw")

\* C8: a counter store that fails or is not bound never blocks a request: the
\* check allows when its get threw, the status query reports the full limit,
\* and a put that threw still ends the turn with the 200 answer.
C8_StoreFailureNeverBlocks ==
    \A r \in Reqs :
        LET q == req[r] IN
        /\ (Checked(q) /\ (~q.seen.ok \/ ~kvBound)) => q.rl.allowed
        /\ (q.handler = "status" /\ q.pc = "done" /\ (~q.seen.ok \/ ~kvBound))
                => q.resp = jsonResponse(200, -1, MAX_REQUESTS_PER_DAY)
        /\ (q.pc = "done" /\ Called(q, "kv.put threw"))
                => q.resp = jsonResponse(200, -1, -1)
        /\ (q.pc = "done" /\ Called(q, "completion") /\ ~kvBound)
                => q.resp = jsonResponse(200, -1, -1)

\* a turn whose record call lost both its get and its put, answered all the same
C8_Witness ==
    \E r \in Reqs :
        /\ req[r].pc = "done" /\ req[r].resp.status = 200
        /\ ~req[r].seen.ok /\ Called(req[r], "kv.put threw")

\* C10: the remaining of /status over what its get returned and its now: limit
\* minus count, not below 0, while the window is open; the limit with no
\* record or a window that is over; always within 0..limit; and 0 exactly when
\* checkRateLimit denies on the same get outcome and clock value.
C10_StatusReflectsQuota ==
    \A r \in Reqs :
        LET q == req[r]
            remaining == q.resp.remaining
        IN  (q.handler = "status" /\ q.pc = "done") =>
            /\ q.resp.kind = "json" /\ q.resp.status = 200
            /\ Tracked(q.seen, q.now) =>
                   LET count == q.seen.value[1].count IN
                   /\ count < MAX_REQUESTS_PER_DAY => remaining = MAX_REQUESTS_PER_DAY - count
                   /\ count >= MAX_REQUESTS_PER_DAY => remaining = 0
            /\ Fresh(q.seen, q.now) => remaining = MAX_REQUESTS_PER_DAY
            /\ 0 <= remaining /\ remaining <= MAX_REQUESTS_PER_DAY
            /\ (remaining = 0) <=> ~checkRateLimit(q.seen, q.now).allowed

\* a status query answered at the very instant resetAt of a used-up window
C10_Witness ==
    \E r \in Reqs :
        /\ req[r].handler = "status" /\ req[r].pc = "done"
        /\ req[r].resp.remaining = 0
        /\ Tracked(req[r].seen, req[r].now)
        /\ req[r].now = req[r].seen.value[1].resetAt

(***************************************************************************)
(* Properties of the chat client                                           *)
(***************************************************************************)
\* the calls of handler cur to the given path
CallsTo(cur, path) == {i \in 1..Len(cur.sent) : cur.sent[i].path = path}

\* the message of the turn of cur as the conversation shows it
Shown(cur) == messages[FindMessage(messages, cur.loadingId)]
\* the turn's message is still part of the conversation (renderChat drops it)
InConversation(cur) == FindMessage(messages, cur.loadingId) # 0

\* C9: a turn whose streamed attempt failed (rejected fetch, non-success
\* status such as this worker's 404 for /chat/stream, broken body) has made
\* exactly one /chat call, after the stream call and with the same message,
\* context and docket; when the turn is over its message shows that call's
\* answer if the call succeeded and the error text only if it failed too; a
\* turn whose stream did not fail makes no /chat call and shows no error.
C9_StreamFallback ==
    \A h \in Handlers :
        LET cur == hs[h]
        IN  /\ cur.stream = "failed" =>
                /\ Len(cur.sent) = 2
                /\ cur.sent[1].path = "/chat/stream"
                /\ cur.sent[2] = [cur.sent[1] EXCEPT !.path = "/chat"]
                /\ cur.send # "none"
            /\ cur.stream # "failed" /\ cur.pc # "idle" =>
                CallsTo(cur, "/chat") = {} /\ cur.send = "none"
            /\ (cur.pc = "done" /\ InConversation(cur)) =>
                /\ ~Shown(cur).loading
                /\ (cur.stream = "failed" /\ cur.send = "ok") => Shown(cur).content = Answer
                /\ Shown(cur).content = ErrorText <=>
                        (cur.stream = "failed" /\ cur.send = "failed")
            /\ cur.pc = "done" => cur.send # "pending" /\ cur.stream # "pending"

\* C9 witness: the worker answered /chat/stream with a non-success status, the
\* /chat call succeeded and the conversation shows its answer
C9_Witness ==
    \E h \in Handlers :
        /\ hs[h].pc = "done" /\ hs[h].stream = "failed" /\ hs[h].send = "ok"
        /\ WorkerStreamStatus # 200
        /\ hs[h].chunks = 0
        /\ InConversation(hs[h]) /\ Shown(hs[h]).content = Answer

\* the fallback after chunks were already shown
C9_FallbackAfterChunks ==
    \E h \in Handlers :
        /\ hs[h].pc = "done" /\ hs[h].stream = "failed" /\ hs[h].send = "ok"
        /\ hs[h].chunks > 0
        /\ InConversation(hs[h]) /\ Shown(hs[h]).content = Answer

\* the fallback failed too: the error text is shown
C9_BothFailed ==
    \E h \in Handlers :
        /\ hs[h].pc = "done" /\ hs[h].stream = "failed" /\ hs[h].send = "failed"
        /\ InConversation(hs[h]) /\ Shown(hs[h]).content = ErrorText

(***************************************************************************)
(* Properties of the search library                                        *)
(***************************************************************************)
\* the vector has zero magnitude
ZeroMagnitude(v) == \A i \in 1..Len(v) : v[i] = 0

\* C16: cosineSimilarity throws exactly when the two vectors differ in length,
\* whatever their common prefix; for equal lengths it returns a number, and
\* that number is 0 when either vector has zero magnitude.
C16_CosineErrors ==
    (lib.op = "cosineSimilarity" /\ lib.returned) =>
        /\ IsError(lib.result) <=> Len(lib.a) # Len(lib.b)
        /\ (Len(lib.a) = Len(lib.b)) => lib.result.den2 > 0
        /\ (Len(lib.a) = Len(lib.b) /\ (ZeroMagnitude(lib.a) \/ ZeroMagnitude(lib.b)))
                => lib.result = Number(0, 1)

\* C16 witness: a zero vector against a vector of its length gave 0
C16_Witness ==
    /\ lib.op = "cosineSimilarity" /\ lib.returned
    /\ Len(lib.a) = MaxDim /\ Len(lib.b) = MaxDim
    /\ ZeroMagnitude(lib.a) /\ ~ZeroMagnitude(lib.b)
    /\ lib.result = Number(0, 1)

\* vectors of different length, the shorter a prefix of the longer: an error
C16_MismatchThrows ==
    /\ lib.op = "cosineSimilarity" /\ lib.returned
    /\ Len(lib.a) < Len(lib.b) /\ Len(lib.a) > 0
    /\ lib.a = SubSeq(lib.b, 1, Len(lib.a))
    /\ IsError(lib.result)

\* the call of searchSimilar has returned a list
SimilarReturned ==
    /\ lib.op = "searchSimilar" /\ lib.returned
    /\ ~IsError(lib.result)

\* C12: the list searchSimilar returns for a topK of 0 or more has at most topK
\* results (as many as the index allows), its scores never increase from one
\* result to the next, and of two results of equal score the one earlier in
\* the index comes first.
C12_TopKSortedStable ==
    SimilarReturned =>
        LET r == lib.result.value
            n == IF NoComments(lib.embeddingsData) THEN 0
                 ELSE Len(lib.embeddingsData.comments)
        IN  /\ Len(r) = Min(lib.topK, n)
            /\ \A i \in 1..Len(r), j \in 1..Len(r) :
                    i < j =>
                        /\ ~NumberLess(r[i].score, r[j].score)
                        /\ ~NumberLess(r[j].score, r[i].score) => r[i].id < r[j].id

\* C12 witness: an index larger than topK whose order had to change, with two
\* results of equal score among those returned
C12_Witness ==
    /\ SimilarReturned /\ ~NoComments(lib.embeddingsData)
    /\ lib.topK >= 2 /\ Len(lib.result.value) = lib.topK
    /\ Len(lib.embeddingsData.comments) > lib.topK
    /\ lib.result.value[1].id # 1
    /\ \E i \in 1..lib.topK, j \in 1..lib.topK :
            /\ i < j
            /\ ~NumberLess(lib.result.value[j].score, lib.result.value[i].score)

\* the comments of the index of the call (none without comments)
IndexComments == IF NoComments(lib.embeddingsData) THEN <<>> ELSE lib.embeddingsData.comments
\* the number of places of the query's terms that the comment's text contains
Matches(c) == Cardinality({i \in 1..Len(lib.query.terms) : lib.query.terms[i] \in c.text_preview})
\* the comment passes the filters of the run, and matches its query if it has one
Passes(c) ==
    /\ lib.sentiment # "" => c.sentiment = lib.sentiment
    /\ lib.theme # "" => (c.theme_ids.defined /\ lib.theme \in c.theme_ids.ids)
    /\ lib.query.given => Matches(c) > 0
\* comment c ranks before comment d: more matches, then the place in the index
RanksBefore(c, d) ==
    IF lib.query.given
    THEN Matches(c) > Matches(d) \/ (Matches(c) = Matches(d) /\ c.id < d.id)
    ELSE c.id < d.id
PerformReturned == lib.op = "performSearch" /\ lib.returned

\* C13: the results of performSearch are the comments that pass the sentiment
\* and theme filters (and match the query), ranked, cut to 20: as many as pass
\* up to 20, every one passing, in rank order, and no passing comment left out
\* ranks before one that is shown. The cut is never taken over comments that
\* do not pass.
C13_FilterBeforeRankAndCut ==
    PerformReturned =>
        LET r == lib.result
            passing == {j \in 1..Len(IndexComments) : Passes(IndexComments[j])}
            shown == {r[i].id : i \in 1..Len(r)}
        IN  /\ Len(r) = Min(MAX_RESULTS, Cardinality(passing))
            /\ shown \subseteq passing
            /\ \A i \in 1..Len(r), j \in 1..Len(r) :
                    i < j => RanksBefore(IndexComments[r[i].id], IndexComments[r[j].id])
            /\ \A j \in passing \ shown, i \in shown :
                    RanksBefore(IndexComments[i], IndexComments[j])

\* C13 witness: a filtered and ranked run over more than 20 comments, some of
\* the first 20 failing the filter, that shows a comment from behind the 20th
C13_Witness ==
    /\ PerformReturned /\ lib.sentiment # "" /\ lib.query.given
    /\ Len(IndexComments) > MAX_RESULTS
    /\ \E j \in 1..MAX_RESULTS : ~Passes(IndexComments[j])
    /\ \E i \in 1..Len(lib.result) : lib.result[i].id > MAX_RESULTS
    /\ lib.result[1].id # 1

\* more than 20 comments pass: 20 are shown
C13_CutReached ==
    /\ PerformReturned /\ lib.theme # ""
    /\ Cardinality({j \in 1..Len(IndexComments) : Passes(IndexComments[j])}) > MAX_RESULTS
    /\ Len(lib.result) = MAX_RESULTS

\* the number of comments clusterComments is called with
ClusterSize == IF NoComments(lib.embeddingsData) THEN 0 ELSE Len(lib.embeddingsData.comments)

\* C15: a call of clusterComments with k greater than the number of comments
\* can return (its loop is never entered), and what it returns is the empty
\* list: no error, no assignment.
C15_ClusterTooFew ==
    (lib.op = "clusterComments" /\ lib.k > ClusterSize) =>
        /\ ~lib.returned => ENABLED ClusterComments
        /\ lib.returned => lib.result = Value(<<>>)

\* C15 witness: comments, fewer than k, and the empty list returned
C15_Witness ==
    /\ lib.op = "clusterComments" /\ lib.returned
    /\ ClusterSize > 0 /\ lib.k > ClusterSize
    /\ lib.result = Value(<<>>)

\* k within the number of comments: every comment is assigned
C15_Clustered ==
    /\ lib.op = "clusterComments" /\ lib.returned
    /\ ClusterSize >= 2 /\ lib.k = 2
    /\ Len(lib.result.value) = ClusterSize
    /\ \E i \in 1..ClusterSize : lib.result.value[i].cluster = 1

\* the docket's index has loaded in this call: some load of it gave an object
IndexLoaded(d) ==
    \E i \in DOMAIN fan.docketIds :
        /\ fan.docketIds[i] = d
        /\ fan.loaded[i] \notin {NotLoaded, NullData}
\* an index has loaded on which searchSimilar throws
SearchThrew ==
    \E i \in DOMAIN fan.docketIds :
        /\ fan.loaded[i] \notin {NotLoaded, NullData}
        /\ IsError(searchSimilar(FanQuery, fan.loaded[i], DEFAULT_TOP_K))

\* C14: searchAcrossDockets is rejected only when searchSimilar throws on an
\* index that has loaded, never because a load failed; when every callback is
\* through it returns, and the map it returns holds a result list for exactly
\* the dockets whose index loaded, each the searchSimilar of a loaded index.
C14_FanOutIndependent ==
    /\ fan.pc = "rejected" => SearchThrew
    /\ (fan.pc = "running" /\ \A i \in DOMAIN fan.at : fan.at[i] = "done")
            => (~SearchThrew /\ ENABLED FanReturn)
    /\ fan.pc = "returned" =>
          \A d \in DocketIds :
              /\ fan.results[d] # Absent <=> IndexLoaded(d)
              /\ fan.results[d] # Absent =>
                    \E i \in DOMAIN fan.docketIds :
                        /\ fan.docketIds[i] = d
                        /\ fan.loaded[i] \notin {NotLoaded, NullData}
                        /\ fan.results[d] = searchSimilar(FanQuery, fan.loaded[i], DEFAULT_TOP_K)

\* C14 witness: two dockets, the load of one failed, the other is in the map
C14_Witness ==
    /\ fan.pc = "returned" /\ Len(fan.docketIds) = 2
    /\ fan.docketIds[1] # fan.docketIds[2]
    /\ fan.loaded[1] = NullData /\ embeddingsCache[fan.docketIds[1]] = NotCached
    /\ fan.results[fan.docketIds[1]] = Absent
    /\ fan.results[fan.docketIds[2]] # Absent
    /\ Len(fan.results[fan.docketIds[2]].value) = 2

\* C17 (as claimed): a turn whose stream failed after a chunk had been handed
\* to onChunk makes no /chat call, and ends showing the error text.
C17_NoRetryAfterChunk ==
    \A h \in Handlers :
        (hs[h].stream = "failed" /\ hs[h].chunks > 0) =>
            /\ CallsTo(hs[h], "/chat") = {}
            /\ (hs[h].pc = "done" /\ InConversation(hs[h]))
                    => Shown(hs[h]).content = ErrorText

(***************************************************************************)
(* Properties of the order of a chat turn                                  *)
(***************************************************************************)
\* the step of handleChat a position belongs to
PcStage(pc) ==
    CASE pc = "chk_get" -> 1
      [] pc = "body" -> 2
      [] pc = "embed" -> 3
      [] pc = "search" -> 4
      [] pc = "analysis" -> 5
      [] pc = "complete" -> 6
      [] pc = "inc_get" -> 7
      [] pc = "inc_put" -> 8
      [] OTHER -> 9
\* the step the i-th call of a turn belongs to; the first call is the get of
\* the check, a later get is the one of the record
CallStage(q, i) ==
    LET c == q.calls[i]
    IN  CASE c = "kv.get" -> (IF i = 1 THEN 1 ELSE 7)
          [] c \in {"embedding", "embedding threw"} -> 3
          [] c \in {"vectorSearch", "vectorSearch threw"} -> 4
          [] c \in {"analysis", "analysis threw"} -> 5
          [] c \in {"completion", "completion not ok", "completion threw"} -> 6
          [] c \in {"kv.put", "kv.put threw"} -> 8
          [] OTHER -> 0

\* C18: in a chat turn the calls that have finished or failed are in the
\* order quota check, embedding, vector search, analysis fetch, completion,
\* quota record (get, put), none twice; the step in progress comes after all
\* of them; the search is made only after the embedding succeeded, the record
\* only after the completion succeeded, and the 200 response only after the
\* completion and the record.
C18_StrictSequence ==
    \A r \in Reqs :
        LET q == req[r] IN
        q.handler = "chat" =>
            /\ \A i \in 1..Len(q.calls) : CallStage(q, i) > 0
            /\ \A i \in 1..Len(q.calls), j \in 1..Len(q.calls) :
                    i < j => CallStage(q, i) < CallStage(q, j)
            /\ Len(q.calls) > 0 =>
                    /\ CallStage(q, 1) = 1
                    /\ CallStage(q, Len(q.calls)) < PcStage(q.pc)
            /\ PcStage(q.pc) > 1 => Len(q.calls) > 0
            /\ (Called(q, "vectorSearch") \/ Called(q, "vectorSearch threw") \/ q.pc = "search")
                    => Called(q, "embedding")
            /\ q.pc \in {"inc_get", "inc_put"} => Called(q, "completion")
            /\ (q.pc = "done" /\ q.resp.status = 200) =>
                    /\ Called(q, "completion")
                    /\ kvBound => (Called(q, "kv.put") \/ Called(q, "kv.put threw"))

\* C18 witness: a turn with a docket that went through every step
C18_Witness ==
    \E r \in Reqs :
        /\ req[r].pc = "done" /\ req[r].resp.status = 200
        /\ req[r].calls = <<"kv.get", "embedding", "vectorSearch", "analysis",
                            "completion", "kv.get", "kv.put">>

(***************************************************************************)
(* Properties of concurrent chat turns                                     *)
(***************************************************************************)
\* the turn has read the record in incrementRateLimit and not yet returned
HasRead(q) ==
    /\ q.handler = "chat"
    /\ q.pc = "inc_put" \/ (q.pc = "done" /\ q.resp.status = 200)

\* two turns in flight have read the same record, both inside its window or
\* both with no usable record
SameRead(q1, q2) ==
    /\ HasRead(q1) /\ HasRead(q2)
    /\ q1.seen.ok /\ q1.seen = q2.seen
    /\ \/ Tracked(q1.seen, q1.now) /\ Tracked(q2.seen, q2.now)
       \/ Fresh(q1.seen, q1.now) /\ Fresh(q2.seen, q2.now)

\* C19: two concurrent turns of one identity that have read the same record
\* in incrementRateLimit, before either wrote, go on to write the same count
\* (the count read plus one, or 1 without a usable record), and once both
\* have written the stored count is that one count: two answered turns have
\* advanced it by one.
C19_LostUpdate ==
    \A r1 \in Reqs, r2 \in Reqs :
        LET q1 == req[r1]
            q2 == req[r2]
        IN  (r1 # r2 /\ SameRead(q1, q2)) =>
            /\ q1.data.count = q2.data.count
            /\ q1.data.count =
                    IF Tracked(q1.seen, q1.now) THEN q1.seen.value[1].count + 1 ELSE 1
            /\ (Recorded(q1) /\ Recorded(q2)) =>
                    kv[CycleKey][1].value.count = q1.data.count

\* C19 witness: from an empty store two turns were answered and both have
\* recorded, and the stored count is 1
C19_Witness ==
    \E r1 \in Reqs, r2 \in Reqs :
        /\ r1 # r2 /\ SameRead(req[r1], req[r2])
        /\ Recorded(req[r1]) /\ Recorded(req[r2])
        /\ served = 2
        /\ kv[CycleKey][1].value.count < served

\* C20 (as claimed): while the stored record of the identity is readable and
\* its window is open, no step replaces its count by a smaller one.
C20_CountMonotonic ==
    [][(/\ KvValue(CycleKey) # Null
        /\ clock <= kv[CycleKey][1].value.resetAt)
            => (/\ kv'[CycleKey] # Null
                /\ kv'[CycleKey][1].value.count >= kv[CycleKey][1].value.count)]_vars

(***************************************************************************)
(* Frame of the rate limiter                                               *)
(***************************************************************************)
\* the request is inside checkRateLimit or getRemainingRequests, at its get
Reading(q) == q.pc \in {"chk_get", "status_get"}

\* the request is inside incrementRateLimit, at its put, and has not put yet
Putting(q) == q.handler = "chat" /\ q.pc = "inc_put" /\ ~Called(q, "kv.put")

\* C21: a step of checkRateLimit or of getRemainingRequests leaves the counter
\* store as it was, whatever its get returned (no record and a record whose
\* window is over included); the store changes only in the step that is the
\* put of incrementRateLimit, which a chat request takes at most once.
C21_OnlyRecordWrites ==
    [][/\ \A r \in Reqs : (Reading(req[r]) /\ req'[r] # req[r]) => kv' = kv
       /\ kv' # kv => \E r \in Reqs :
                        /\ Putting(req[r])
                        /\ req'[r].pc = "done" /\ Called(req'[r], "kv.put")]_vars

\* a status query that read a record whose window is over and left it in place
C21_Witness ==
    \E r \in Reqs :
        LET q == req[r] IN
        /\ q.handler = "status" /\ q.pc = "done"
        /\ q.seen.ok /\ q.seen.value # Null /\ q.now > q.seen.value[1].resetAt
        /\ kv[Key(q.ip)] = q.before /\ q.before # Null

(***************************************************************************)
(* The grounding context: buildContext                                     *)
(***************************************************************************)
\* match_count of the vector search of a chat turn
MATCH_COUNT == 5
\* analysis.themes.slice(0, 5)
THEME_LIMIT == 5
\* text.slice(0, 300)
EXCERPT_LENGTH == 300

\* a text, by its length; an empty text is falsy
Text(length) == [length |-> length]
\* text.slice(0, end)
sliceText(text, end) == Text(Min(text.length, end))

\* a row of match_comments; author: "" stands for a missing author
Row(comment_id, author, comment_text) ==
    [comment_id |-> comment_id, author |-> author, comment_text |-> comment_text]

\* analysis is null (no docket, fetch failed) or undefined (no row): falsy
NoAnalysis == [present |-> FALSE]
\* a row of analyses; themes: the ids of its themes in order, sentiment: set or not
Analysis(sentiment, themes) ==
    [present |-> TRUE, sentiment |-> sentiment, themes |-> themes]

\* a piece of the context string, in the order of the += that wrote it
Line(kind, n, who, text) == [kind |-> kind, n |-> n, who |-> who, text |-> text]
Heading(title) == Line(title, 0, "", Text(0))

\* buildContext(comments, analysis): the pieces of the string it returns
buildContext(comments, analysis) ==
    LET summary ==
            IF ~analysis.present THEN <<>>
            ELSE <<Heading("## Docket Analysis Summary"), Heading("executive_summary")>>
                 \o (IF analysis.sentiment THEN <<Heading("Sentiment")>> ELSE <<>>)
                 \o (IF Len(analysis.themes) > 0
                     THEN <<Heading("Key Themes:")>>
                          \o [i \in 1..Min(Len(analysis.themes), THEME_LIMIT) |->
                                Line("theme", analysis.themes[i], "", Text(0))]
                     ELSE <<>>)
        excerpts ==
            IF Len(comments) > 0
            THEN <<Heading("## Relevant Comments")>>
                 \o [i \in 1..Len(comments) |->
                        Line("excerpt", i,
                             IF comments[i].author = "" THEN "Anonymous"
                             ELSE comments[i].author,
                             sliceText(comments[i].comment_text, EXCERPT_LENGTH))]
            ELSE <<>>
    IN  summary \o excerpts

\* the rows a vector search can answer with: n rows in rank order, with and
\* without author, with texts around the excerpt length
Rows(n, pattern) ==
    [i \in 1..n |->
        Row(i, IF (i + pattern) % 2 = 0 THEN "" ELSE "author",
            Text(EXCERPT_LENGTH - 1 + ((i + pattern) % 3)))]

Analyses(sizes) ==
    {NoAnalysis} \cup
    {Analysis(s, [i \in 1..t |-> i]) : s \in BOOLEAN, t \in sizes}

\* the calls of buildContext: up to extra rows and themes more than are asked for
ContextCalls(extra) ==
    {[op |-> "buildContext", comments |-> Rows(n, p), analysis |-> a,
      result |-> Pending, returned |-> FALSE] :
        n \in 0..(MATCH_COUNT + extra), p \in 0..1,
        a \in Analyses(0..(THEME_LIMIT + extra))}

BuildContext ==
    /\ lib.op = "buildContext"
    /\ Returns(buildContext(lib.comments, lib.analysis))

\* step 3 of a chat turn, on the rows and the analysis steps 1 and 2 ended with
InitContext ==
    /\ ClientInit
    /\ clock = 0
    /\ kvBound = TRUE
    /\ kv = [k \in Keys |-> Null]
    /\ req = [r \in Reqs |-> IdleReq]
    /\ received = 0
    /\ served = 0
    /\ embeddingsCache = [d \in DocketIds |-> NotCached]
    /\ lib \in ContextCalls(MaxExtra)
    /\ fan = IdleFan

NextContext == BuildContext

SpecContext == InitContext /\ [][NextContext]_vars

\* the pieces of a context of one kind, in order
SelectLines(context, kind) == SelectSeq(context, LAMBDA l : l.kind = kind)

\* C22 (as claimed): the context holds at most the first 5 rows of the vector
\* search as excerpts numbered 1, 2, ... in rank order, however many rows the
\* search returned, and at most the first 5 themes of the analysis.
C22_ContextBounded ==
    (lib.op = "buildContext" /\ lib.returned) =>
        LET excerpts == SelectLines(lib.result, "excerpt")
            themes == SelectLines(lib.result, "theme")
        IN  /\ Len(excerpts) = Min(Len(lib.comments), MATCH_COUNT)
            /\ \A i \in 1..Len(excerpts) : excerpts[i].n = i
            /\ lib.analysis.present =>
                  /\ Len(themes) = Min(Len(lib.analysis.themes), THEME_LIMIT)
                  /\ \A i \in 1..Len(themes) : themes[i].n = lib.analysis.themes[i]

(***************************************************************************)
(* Time-to-live of a record against its window                             *)
(***************************************************************************)
\* C23 (as claimed): the time-to-live of a stored record never ends before its
\* resetAt and ends no later than one window length after its resetAt.
C23_TtlWithinWindow ==
    \A k \in Keys :
        kv[k] # Null =>
            /\ kv[k][1].value.resetAt <= kv[k][1].expiresAt
            /\ kv[k][1].expiresAt <= kv[k][1].value.resetAt + WINDOW_MS

\* C23 (amended): the time-to-live of a stored record never ends before its
\* resetAt, whichever record call wrote it last; it ends one window length
\* after the put that wrote it last, which is no later than one window length
\* after resetAt when that put was made while the window was open.  The record
\* call reads the clock before its get and puts after it: its now is never past
\* the resetAt it stores, its put can be.
C23_TtlCoversWindow ==
    /\ \A k \in Keys :
          kv[k] # Null => kv[k][1].value.resetAt <= kv[k][1].expiresAt
    /\ \A r \in Reqs :
          LET q == req[r]
              stored == kv[Key(q.ip)][1]
          IN  Recorded(q) =>
                /\ stored.expiresAt = clock + WINDOW_MS
                /\ q.now <= stored.value.resetAt
                /\ clock <= stored.value.resetAt
                      => stored.expiresAt <= stored.value.resetAt + WINDOW_MS

\* a record call on an open window whose put has moved the expiry past resetAt
C23_Witness ==
    \E r \in Reqs :
        /\ Recorded(req[r]) /\ Tracked(req[r].seen, req[r].now)
        /\ kv[Key(req[r].ip)][1].expiresAt > kv[Key(req[r].ip)][1].value.resetAt
        /\ clock <= kv[Key(req[r].ip)][1].value.resetAt

(***************************************************************************)
(* Properties of clusterComments within the index                          *)
(***************************************************************************)
\* the ways of choosing k pairwise distinct records out of n, in order
DistinctRecords(k, n) ==
    {p \in [1..k -> 1..n] : \A i \in 1..k, j \in 1..k : i # j => p[i] # p[j]}

\* assignments is one assignment per comment, in index order, each naming by
\* its cluster (counted from 0) one of the centroids at picks of maximal
\* similarity to the comment, with that similarity as its score
AssignedBy(comments, picks, assignments) ==
    /\ Len(assignments) = Len(comments)
    /\ \A i \in 1..Len(comments) :
          LET a == assignments[i] IN
          /\ a.commentId = comments[i].id
          /\ a.cluster \in 0..(Len(picks) - 1)
          /\ a.score = cosineSimilarity(comments[i].embedding,
                                        comments[picks[a.cluster + 1]].embedding)
          /\ \A j \in 1..Len(picks) :
                ~NumberLess(a.score, cosineSimilarity(comments[i].embedding,
                                                      comments[picks[j]].embedding))

\* a call of clusterComments with k from least up to the number of comments
\* can return, and what it returns is the assignment by k distinct records
ClusterAssigns(least) ==
    (/\ lib.op = "clusterComments" /\ ~NoComments(lib.embeddingsData)
     /\ least <= lib.k /\ lib.k <= ClusterSize) =>
        /\ ~lib.returned => ENABLED ClusterComments
        /\ lib.returned =>
              \E picks \in DistinctRecords(lib.k, ClusterSize) :
                  AssignedBy(lib.embeddingsData.comments, picks, lib.result.value)

\* C24 (as claimed): for every k not exceeding the number of records
\* clusterComments returns, having drawn its centroids from k pairwise distinct
\* records, one assignment per record in index order whose cluster lies in
\* 0..k-1 and names a centroid of maximal similarity, with that similarity as
\* score.
C24_ClusterAssignsAnyK == ClusterAssigns(0)

\* C24 (amended): the same for every k from 1 to the number of records.  With
\* k = 0 no centroid is drawn and every record is still given cluster 0 and
\* score -1.
C24_ClusterAssignsFromOne == ClusterAssigns(1)

\* two records that are not parallel, two centroids, both clusters in use
C24_Witness ==
    /\ lib.op = "clusterComments" /\ lib.returned
    /\ ClusterSize = MaxIndex /\ lib.k = 2
    /\ \E i, j \in 1..ClusterSize :
          /\ lib.result.value[i].cluster = 0 /\ lib.result.value[j].cluster = 1
          /\ NumberLess(lib.result.value[i].score, Number(1, 1))

(***************************************************************************)
(* Properties of textSearch                                                *)
(***************************************************************************)
\* the words of a query: its maximal runs of characters other than white
\* space, each by the places of its first and last character
Words(query) ==
    {w \in (1..Len(query)) \X (1..Len(query)) :
        /\ w[1] <= w[2]
        /\ \A n \in w[1]..w[2] : query[n] # " "
        /\ w[1] = 1 \/ query[w[1] - 1] = " "
        /\ w[2] = Len(query) \/ query[w[2] + 1] = " "}
\* the words longer than 2 characters
KeptWords(query) == {w \in Words(query) : w[2] - w[1] + 1 > 2}

\* the same character, but for case
SameLetter(c, d) == c = d \/ {c, d} = {"a", "A"} \/ {c, d} = {"b", "B"}
\* the word w of the query occurs in the text, but for case
Occurs(text, query, w) ==
    \E o \in 0..(Len(text) - (w[2] - w[1] + 1)) :
        \A n \in 0..(w[2] - w[1]) : SameLetter(text[o + 1 + n], query[w[1] + n])
\* the number of kept words of the query that occur in the text
Matched(text, query) == Cardinality({w \in KeptWords(query) : Occurs(text, query, w)})

\* C25: textSearch returns exactly the comments in which at least one word of
\* the query longer than 2 characters occurs (case ignored), each once and as
\* it was given, with matchScore the number of such words that occur over the
\* number of such words, a number in (0, 1]; the results are in non-increasing
\* order of matchScore, equal scores in the order of the input; a query
\* without a word longer than 2 gives no result.  The result is thereby fixed
\* by the inputs.
C25_TextSearch ==
    (lib.op = "textSearch" /\ lib.returned) =>
        LET R == lib.result
            C == lib.comments
            kept == Cardinality(KeptWords(lib.query))
        IN  /\ \A i \in 1..Len(C) :
                  (Matched(C[i].text_preview, lib.query) > 0)
                      <=> (\E n \in 1..Len(R) : R[n].id = i)
            /\ \A n \in 1..Len(R) :
                  /\ R[n].id \in 1..Len(C)
                  /\ R[n].text_preview = C[R[n].id].text_preview
                  /\ R[n].matchScore.den > 0
                  /\ R[n].matchScore.num * kept
                        = Matched(C[R[n].id].text_preview, lib.query) * R[n].matchScore.den
                  /\ 0 < R[n].matchScore.num
                  /\ R[n].matchScore.num <= R[n].matchScore.den
            /\ \A n \in 1..Len(R), m \in 1..Len(R) :
                  n < m =>
                      /\ ~FractionLess(R[n].matchScore, R[m].matchScore)
                      /\ ~FractionLess(R[m].matchScore, R[n].matchScore)
                            => R[n].id < R[m].id
            /\ kept = 0 => R = <<>>

\* a result of three: the best match moved to the front, the two equal
\* scores behind it in the order of the input
C25_Witness ==
    /\ lib.op = "textSearch" /\ lib.returned
    /\ Len(lib.result) = 3
    /\ lib.result[1].id = 2 /\ lib.result[2].id = 1 /\ lib.result[3].id = 3
    /\ FractionLess(lib.result[2].matchScore, lib.result[1].matchScore)
    /\ ~FractionLess(lib.result[3].matchScore, lib.result[2].matchScore)

\* a query of short words only: no result although its words occur
C25_ShortOnly ==
    /\ lib.op = "textSearch" /\ lib.returned
    /\ Words(lib.query) # {} /\ KeptWords(lib.query) = {}
    /\ Len(lib.comments) > 0 /\ lib.result = <<>>

(***************************************************************************)
(* Concurrent chat turns of one identity at the limit: two requests in     *)
(* flight at once, the stored count one below the limit, the store and     *)
(* every other collaborator answering.                                     *)
(***************************************************************************)
\* the record after limit - 1 turns of a window opened at time 0, the last of
\* them answered at time 1
QuotaStore ==
    Some([value |-> Record(MAX_REQUESTS_PER_DAY - 1, WINDOW_MS),
          expiresAt |-> 1 + EXPIRATION_TTL * MS_PER_SECOND])

InitQuota ==
    /\ ClientInit
    /\ VectorDbInit
    /\ clock = 1
    /\ kvBound = TRUE
    /\ kv = [k \in Keys |-> IF k = CycleKey THEN QuotaStore ELSE Null]
    /\ req = [r \in Reqs |-> IdleReq]
    /\ received = 0
    /\ served = 0

QuotaStep(r) ==
    \/ Return(r)
    \/ ReceiveChat(r, RaceRequests) /\ CycleTurn(req'[r])
    \/ ChatCheck(r) /\ CycleTurn(req'[r])
    \/ ChatBody(r) /\ CycleTurn(req'[r])
    \/ ChatEmbed(r) /\ CycleTurn(req'[r])
    \/ ChatSearch(r) /\ CycleTurn(req'[r])
    \/ ChatComplete(r) /\ CycleTurn(req'[r])
    \/ ChatIncGet(r) /\ CycleTurn(req'[r])
    \/ ChatIncPut(r) /\ CycleTurn(req'[r])

NextQuota ==
    \/ Tick
    \/ \E r \in Reqs : QuotaStep(r)

SpecQuota == InitQuota /\ [][NextQuota]_vars

\* the completion calls made since the behaviour began: the turns answered
\* and the turns between their completion call and their put
Completions ==
    served + Cardinality({r \in Reqs : req[r].pc \in {"inc_get", "inc_put"}})

HasGot(q, after) ==
    /\ q.pc \in {"chk_get", "status_get", "inc_get"}
    /\ after # q

\* C27: a request is accounted to the value of its CF-Connecting-IP header,
\* and to 'unknown' when it has none; its check, record or status operation
\* reads the record stored for that identity and no other, and a step changes
\* the record of an identity only as the put of a request of that identity:
\* the records of all other identities stay as they are.
C27_IdentitiesIndependent ==
    [][/\ \A r \in Reqs :
            req'[r].handler \in {"chat", "status"} =>
                req'[r].ip = IF req'[r].header = NoHeader THEN "unknown"
                             ELSE req'[r].header
       /\ \A r \in Reqs :
            (HasGot(req[r], req'[r]) /\ req'[r].seen.ok /\ kvBound) =>
                \E k \in Keys : k[2] = req[r].ip /\ req'[r].seen.value = KvValue(k)
       /\ \A k \in Keys :
            kv'[k] # kv[k] => \E r \in Reqs : Putting(req[r]) /\ k[2] = req[r].ip]_vars

\* a turn without the header has stored the record of 'unknown' next to the
\* record of another identity
C27_Witness ==
    \E r \in Reqs :
        /\ Recorded(req[r]) /\ req[r].header = NoHeader
        /\ kv[<<"ratelimit", "unknown">>] # req[r].before
        /\ \E k \in Keys : k[2] # "unknown" /\ kv[k] # Null

(***************************************************************************)
(* Retry after a denial: a caller of one identity is denied, waits for the *)
(* retryAfter of the 429 or longer, and sends the next chat request.       *)
(***************************************************************************)
\* clock values of the first request, up to two seconds before resetAt
DenialTimes ==
    {WINDOW_MS - 2 * MS_PER_SECOND, WINDOW_MS - 2 * MS_PER_SECOND + 1,
     WINDOW_MS - 1, WINDOW_MS}
\* how much longer than retryAfter seconds the caller waits, in ms
ExtraWaits == {0, 1, MS_PER_SECOND}
\* a used-up record of a window opened at time 0: its last put was made at
\* time 0, at time 1, or at the time of the denial
RetryStores(now) ==
    {Some([value |-> Record(c, WINDOW_MS), expiresAt |-> put + EXPIRATION_TTL * MS_PER_SECOND]) :
        c \in {MAX_REQUESTS_PER_DAY, MAX_REQUESTS_PER_DAY + 1}, put \in {0, 1, now}}

InitRetry ==
    /\ ClientInit
    /\ VectorDbInit
    /\ clock \in DenialTimes
    /\ kvBound = TRUE
    /\ \E stored \in RetryStores(clock) :
            kv = [k \in Keys |-> IF k = CycleKey THEN stored ELSE Null]
    /\ req = [r \in Reqs |-> IdleReq]
    /\ received = 0
    /\ served = 0

\* the caller reads retryAfter from the 429 and lets that many seconds, or
\* more, pass from the denial
WaitRetryAfter(r) ==
    /\ req[r].pc = "done" /\ req[r].resp.status = 429
    /\ \E extra \in ExtraWaits :
            clock' = req[r].now + req[r].resp.retryAfter * MS_PER_SECOND + extra
    /\ Update(r, IdleReq)
    /\ UNCHANGED <<kvBound, kv, received, served, client, vectordb>>

RetryStep(r) ==
    \/ ReceiveChat(r, MaxRequests) /\ RaceTurn(req'[r])
    \/ ChatCheck(r)
    \/ WaitRetryAfter(r)

NextRetry == \E r \in SeqReqs : RetryStep(r)

SpecRetry == InitRetry /\ [][NextRetry]_vars

\* C28 (as claimed): the chat request a denied caller sends retryAfter seconds
\* or more after the denial is allowed by checkRateLimit.
C28_RetryAllowed ==
    \A r \in Reqs :
        (received >= 2 /\ Checked(req[r])) => req[r].rl.allowed

(***************************************************************************)
(* The chat client: one turn at a time                                     *)
(***************************************************************************)
\* an awaited promise of the turn of handler h settles and the turn goes on
Settles(h) ==
    \/ StreamFetch(h)
    \/ StreamChunk(h)
    \/ StreamDone(h)
    \/ StreamBroken(h)
    \/ SendFetch(h)

\* the chat client, every promise a turn awaits settling in the end (the
\* runtime then runs what follows the await) and every streamed body ending
FairClient == WF_vars(\E h \in Handlers : Settles(h))

\* a page that shows the chat; the worker is idle
InitClient ==
    /\ ClientInit
    /\ VectorDbInit
    /\ clock = 0
    /\ kvBound = TRUE
    /\ kv = [k \in Keys |-> Null]
    /\ req = [r \in Reqs |-> IdleReq]
    /\ received = 0
    /\ served = 0

SpecClientFair == InitClient /\ [][NextClient]_vars /\ FairClient

\* the invocations of handleSubmit that are waiting for a chat request
InFlight == {h \in Handlers : hs[h].pc \in {"stream_fetch", "stream_read", "send_fetch"}}

\* C29: at most one chat request is in flight at any time, and one is in
\* flight exactly while isLoading is true, renderChat or not; while isLoading
\* is true no submit is accepted; and once isLoading is true it becomes false
\* again, whichever way the turn ends.
C29_OneTurnAtATime ==
    /\ [](Cardinality(InFlight) <= 1 /\ (isLoading <=> InFlight # {}))
    /\ [][isLoading => (submits' = submits
                          /\ \A h \in Handlers : hs[h].pc = "idle" => hs'[h].pc = "idle")]_vars
    /\ (isLoading ~> ~isLoading)

\* a turn over with both calls failed and isLoading false again, the chat
\* re-initialised while it was in flight
C29_Witness ==
    \E h \in Handlers :
        /\ hs[h].pc = "done" /\ hs[h].stream = "failed" /\ hs[h].send = "failed"
        /\ ~isLoading /\ messages = <<>> /\ currentDocketId # hs[h].docket

(***************************************************************************)
(* The other routes: handleSearch, handleDockets, handleDocket.  fetch     *)
(* returns the promise of the handler it routes to without awaiting it, so *)
(* a handler that rejects rejects fetch: the catch of fetch is not run.    *)
(***************************************************************************)
\* fetch -> handleSearch up to await request.json()
ReceiveSearch(r, cap) ==
    /\ CanReceive(r, cap)
    /\ \E m \in Methods, p \in Paths, b \in Bodies :
        /\ Route(m, p) = "search"
        /\ Update(r, [IdleReq EXCEPT !.pc = "search_body", !.handler = "search",
                                     !.body = b])
    /\ received' = received + 1
    /\ UNCHANGED <<clock, kvBound, kv, served, client, vectordb>>

\* await request.json(); the query is required
SearchBody(r) ==
    /\ req[r].pc = "search_body"
    /\ CASE req[r].body = "unparsable" ->
                Finish(r, [req[r] EXCEPT !.calls = Append(@, "json threw")], Rejected)
         [] req[r].body = "noMessage" -> Finish(r, req[r], jsonResponse(400, -1, -1))
         [] OTHER -> Update(r, [req[r] EXCEPT !.pc = "search_embed"])
    /\ UNCHANGED <<clock, kvBound, kv, received, served, client, vectordb>>

\* await generateEmbedding(query, env): no try around it
SearchEmbed(r) ==
    /\ req[r].pc = "search_embed"
    /\ \/ Update(r, [req[r] EXCEPT !.pc = "search_rpc", !.calls = Append(@, "embedding")])
       \/ Finish(r, [req[r] EXCEPT !.calls = Append(@, "embedding threw")], Rejected)
    /\ UNCHANGED <<clock, kvBound, kv, received, served, client, vectordb>>

\* await supabaseRpc(env, 'match_comments', ...), then the results
SearchRpc(r) ==
    /\ req[r].pc = "search_rpc"
    /\ \/ Finish(r, [req[r] EXCEPT !.calls = Append(@, "vectorSearch")],
                 jsonResponse(200, -1, -1))
       \/ Finish(r, [req[r] EXCEPT !.calls = Append(@, "vectorSearch threw")], Rejected)
    /\ UNCHANGED <<clock, kvBound, kv, received, served, client, vectordb>>

\* fetch -> handleDockets up to await supabaseQuery
ReceiveDockets(r, cap) ==
    /\ CanReceive(r, cap)
    /\ \E m \in Methods, p \in Paths :
        /\ Route(m, p) = "dockets"
        /\ Update(r, [IdleReq EXCEPT !.pc = "dockets_query", !.handler = "dockets"])
    /\ received' = received + 1
    /\ UNCHANGED <<clock, kvBound, kv, served, client, vectordb>>

\* await supabaseQuery(env, 'dockets', ...), then the list
DocketsQuery(r) ==
    /\ req[r].pc = "dockets_query"
    /\ \/ Finish(r, [req[r] EXCEPT !.calls = Append(@, "supabase")],
                 jsonResponse(200, -1, -1))
       \/ Finish(r, [req[r] EXCEPT !.calls = Append(@, "supabase threw")], Rejected)
    /\ UNCHANGED <<clock, kvBound, kv, received, served, client, vectordb>>

\* fetch -> handleDocket: 400 without an id, else up to the first supabaseQuery
ReceiveDocket(r, cap) ==
    /\ CanReceive(r, cap)
    /\ \E m \in Methods, p \in Paths, id \in BOOLEAN :
        /\ Route(m, p) = "docket"
        /\ IF id
           THEN Update(r, [IdleReq EXCEPT !.pc = "docket_query", !.handler = "docket",
                                          !.docket = TRUE])
           ELSE Update(r, [IdleReq EXCEPT !.pc = "done", !.handler = "docket",
                                          !.resp = jsonResponse(400, -1, -1)])
    /\ received' = received + 1
    /\ UNCHANGED <<clock, kvBound, kv, served, client, vectordb>>

\* await supabaseQuery(env, 'dockets', ...): 404 when no row
DocketQuery(r) ==
    /\ req[r].pc = "docket_query"
    /\ \/ Update(r, [req[r] EXCEPT !.pc = "docket_analysis",
                                   !.calls = Append(@, "supabase")])
       \/ Finish(r, [req[r] EXCEPT !.calls = Append(@, "supabase")],
                 jsonResponse(404, -1, -1))
       \/ Finish(r, [req[r] EXCEPT !.calls = Append(@, "supabase threw")], Rejected)
    /\ UNCHANGED <<clock, kvBound, kv, received, served, client, vectordb>>

\* await supabaseQuery(env, 'analyses', ...), then docket and analysis
DocketAnalysis(r) ==
    /\ req[r].pc = "docket_analysis"
    /\ \/ Finish(r, [req[r] EXCEPT !.calls = Append(@, "analysis")],
                 jsonResponse(200, -1, -1))
       \/ Finish(r, [req[r] EXCEPT !.calls = Append(@, "analysis threw")], Rejected)
    /\ UNCHANGED <<clock, kvBound, kv, received, served, client, vectordb>>

RouteStep(r) ==
    \/ ReceiveSearch(r, MaxRequests)
    \/ SearchBody(r)
    \/ SearchEmbed(r)
    \/ SearchRpc(r)
    \/ ReceiveDockets(r, MaxRequests)
    \/ DocketsQuery(r)
    \/ ReceiveDocket(r, MaxRequests)
    \/ DocketQuery(r)
    \/ DocketAnalysis(r)

\* a worker with an empty counter store
InitRoutes ==
    /\ ClientInit
    /\ VectorDbInit
    /\ clock = 1
    /\ kvBound \in BOOLEAN
    /\ kv = [k \in Keys |-> Null]
    /\ req = [r \in Reqs |-> IdleReq]
    /\ received = 0
    /\ served = 0

\* the worker serving one request at a time, on every route
NextRoutes ==
    \/ Tick
    \/ \E r \in SeqReqs : Step(r)
    \/ \E r \in SeqReqs : RouteStep(r)

SpecRoutes == InitRoutes /\ [][NextRoutes]_vars

\* a failure was raised in the handler of the request and caught by none of
\* its own try blocks
Raised(q) ==
    \/ Called(q, "json threw") \/ Called(q, "supabase threw")
    \/ Called(q, "completion threw")
    \/ q.handler = "chat" /\ q.pc = "done" /\ q.rl.allowed /\ q.body = "unparsable"
    \/ /\ q.handler \in {"search", "docket"}
       /\ Called(q, "embedding threw") \/ Called(q, "vectorSearch threw")
            \/ Called(q, "analysis threw")

\* C30 (as claimed): a request whose handler raised a failure is answered by
\* the JSON response with status 500, and no request ends with fetch rejected.
C30_FailuresAnswered500 ==
    \A r \in Reqs :
        LET q == req[r] IN
        q.pc = "done" =>
            /\ Raised(q) => q.resp = jsonResponse(500, -1, -1)
            /\ q.resp.kind # "rejected"

====
